---- MODULE Spec2Model ----
(***************************************************************************)
(* OmniLens (src/omnilens/__main__.py): the commit-history miner and       *)
(* classifier (GitIntelligence.get_history) and the tech-debt scorer       *)
(* (TechDebtCalculator.calculate_metrics).                                 *)
(*                                                                         *)
(* Text is modelled as sequences of tokens.  A commit subject is a         *)
(* sequence over Alphabet: a word token stands for a run of \w characters, *)
(* the others for one character each.  The commit types of TypeTokens      *)
(* occur only as the first token of a subject and "x" is the only other    *)
(* word token, so a run of two or more word tokens spells a word that is   *)
(* no key of CAT_MAP.                                                      *)
(***************************************************************************)
EXTENDS Integers, Sequences, FiniteSets, TLC

VARIABLES
    pc,         \* get_history: "call", "loop", "returned", "raised" ("idle": not run)
    outcome,    \* how the git log subprocess ended ("none" before the call)
    raw_log,    \* the chunks of the log, after raw_log.split(COMMIT_DELIMITER)
    idx,        \* position of the for loop over the chunks
    commits,    \* the local list commits
    retval,     \* the list get_history returned
    td_pc,      \* the scorer: "idle", "metrics", "done" ("off": not run)
    td_commits, \* its argument commits
    td_metrics, \* its argument code_metrics
    td_result,  \* the TechDebtMetrics it returned
    cm_pc,      \* the complexity engine: "idle", "metrics", "index" ("off": not run)
    cm_lines,   \* the lines of the file given to calculate_code_metrics
    cm_args,    \* the arguments of calculate_maintainability_index
    cm_mi,      \* the index it returned
    cm_result,  \* the dictionary calculate_code_metrics returned
    ch_pc,      \* the report helpers: "idle", "hotspot", "stats" ("off": not run)
    ch_churn,   \* file_churn, the items of the dictionary in insertion order
    ch_max_items, \* max_items
    ch_chart,   \* the chart generate_hotspot_chart returned
    ch_commits, \* the commits given to the two statistics
    ch_breakdown,\* the dictionary get_category_breakdown returned
    ch_authors, \* the dictionary get_author_stats returned
    px_pc,      \* the structural extractor: "idle", "parsed" ("off": not run)
    px_input,   \* the arguments file_path, lines, language of _parse_code_file
    px_classes, \* its local list classes
    px_runs,    \* the lists its calls returned, in order
    run_pc,     \* run_analysis: "start", "parsed", "checked", "gated", "history", "scanned", "exited" ("off": not run)
    run_args,   \* the command-line flags
    run_env,    \* what the run finds: the target path, the repository, git, the report path
    run_is_git, \* the local is_git
    run_commits, \* the local commits
    run_stats,  \* the locals category_breakdown and author_stats
    run_events, \* what the run has done outside itself, in order
    run_exit,   \* the exit status of the process (-1 while it runs)
    run_output, \* the dictionary output
    sc_pc,      \* the per-file loops: "idle", "classes", "metrics", "graph" ("off": not run)
    sc_files,   \* the files of the list, each with what the file system holds for it
    sc_raised,  \* whether the operation raised instead of returning
    sc_classes, \* the list extract_classes returned
    sc_metrics, \* the dictionary extract_complexity_metrics returned
    sc_graph,   \* the dictionary build_dependency_graph returned
    sn_pc,      \* _get_code_snippet: "idle", "done" ("off": not run)
    sn_args,    \* its arguments lines, start_line and snip_format
    sn_snippet, \* the lines of the snippet it returned (none: None)
    fc_pc,      \* get_file_churn: "idle", "done" ("off": not run)
    fc_lines,   \* the lines git printed, each the sequence of its tab-separated fields
    fc_stats    \* the dictionary get_file_churn returned

histVars == <<pc, outcome, raw_log, idx, commits, retval>>
debtVars == <<td_pc, td_commits, td_metrics, td_result>>
metricVars == <<cm_pc, cm_lines, cm_args, cm_mi, cm_result>>
chartVars == <<ch_pc, ch_churn, ch_max_items, ch_chart, ch_commits, ch_breakdown, ch_authors>>
parseVars == <<px_pc, px_input, px_classes, px_runs>>
runVars == <<run_pc, run_args, run_env, run_is_git, run_commits, run_stats, run_events, run_exit, run_output>>
scanVars == <<sc_pc, sc_files, sc_raised, sc_classes, sc_metrics, sc_graph>>
snippetVars == <<sn_pc, sn_args, sn_snippet>>
churnVars == <<fc_pc, fc_lines, fc_stats>>
vars == <<histVars, debtVars, metricVars, chartVars, parseVars, runVars, scanVars, snippetVars, churnVars>>

\* What an action of one operation leaves alone: the state of the others.
histFrame == <<debtVars, metricVars, chartVars, parseVars, runVars, scanVars, snippetVars, churnVars>>
debtFrame == <<histVars, metricVars, chartVars, parseVars, runVars, scanVars, snippetVars, churnVars>>
metricFrame == <<histVars, debtVars, chartVars, parseVars, runVars, scanVars, snippetVars, churnVars>>
chartFrame == <<histVars, debtVars, metricVars, parseVars, runVars, scanVars, snippetVars, churnVars>>
parseFrame == <<histVars, debtVars, metricVars, chartVars, runVars, scanVars, snippetVars, churnVars>>
runFrame == <<histVars, debtVars, metricVars, chartVars, parseVars, scanVars, snippetVars, churnVars>>
scanFrame == <<histVars, debtVars, metricVars, chartVars, parseVars, runVars, snippetVars, churnVars>>
snippetFrame == <<histVars, debtVars, metricVars, chartVars, parseVars, runVars, scanVars, churnVars>>
churnFrame == <<histVars, debtVars, metricVars, chartVars, parseVars, runVars, scanVars, snippetVars>>

(***************************************************************************)
(* Bounds of the model.                                                    *)
(***************************************************************************)
MaxTail == 4        \* tokens of a subject after its first token
MaxStatLines == 2   \* stat lines of a chunk in the numstat inputs
MaxChunks == 3      \* chunks of a log in the multi-chunk inputs
MaxCommits == 3     \* commits handed to calculate_metrics
MaxFiles == 2       \* files aggregated by extract_complexity_metrics

None == <<"None">>

Min(a, b) == IF a <= b THEN a ELSE b

\* The sequences over S of length n (as TLC enumerates them: functions on 1..n).
SeqsOfLen(S, n) == [1..n -> S]

(***************************************************************************)
(* Configuration tables.                                                   *)
(***************************************************************************)
CAT_MAP ==
    [t \in {"feat", "fix", "perf", "refactor", "docs", "test",
            "chore", "ci", "style", "build", "revert", "merge"} |->
       CASE t = "feat" -> "features"
         [] t = "fix" -> "bugfixes"
         [] t = "perf" -> "refactoring"
         [] t = "refactor" -> "refactoring"
         [] t = "docs" -> "docs"
         [] t = "test" -> "test"
         [] t = "chore" -> "chore"
         [] t = "ci" -> "ci"
         [] t = "style" -> "style"
         [] t = "build" -> "build"
         [] t = "revert" -> "reverts"
         [] t = "merge" -> "merges"]

\* Word tokens that are commit types: the keys of CAT_MAP and two words
\* that are no key ("Feat" differs from the key in case only).
TypeTokens == DOMAIN CAT_MAP \cup {"wip", "Feat"}
TailTokens == {"x", "(", ")", "!", ":", " "}
Alphabet == TypeTokens \cup TailTokens

IsWord(t) == t \in TypeTokens \cup {"x"}
IsSpace(t) == t = " "

(***************************************************************************)
(* CONVENTIONAL_RE matched at the start of a subject, as the backtracking  *)
(* matcher decides it: a run of word characters; optionally "(", one or    *)
(* more characters other than ")", and ")"; optionally "!"; ":"; any       *)
(* whitespace; the rest of the subject.                                    *)
(***************************************************************************)
\* Length of the longest prefix of s[from..] whose tokens satisfy the test.
RECURSIVE WordRun(_, _)
WordRun(s, from) ==
    IF from <= Len(s) /\ IsWord(s[from]) THEN 1 + WordRun(s, from + 1) ELSE 0

RECURSIVE NonParenRun(_, _)
NonParenRun(s, from) ==
    IF from <= Len(s) /\ s[from] # ")" THEN 1 + NonParenRun(s, from + 1) ELSE 0

RECURSIVE SpaceRun(_, _)
SpaceRun(s, from) ==
    IF from <= Len(s) /\ IsSpace(s[from]) THEN 1 + SpaceRun(s, from + 1) ELSE 0

\* A scope group that admits an empty scope, "()".
ScopeGroupMatches_emptyScope(s, p) ==
    /\ p <= Len(s) /\ s[p] = "("
    /\ NonParenRun(s, p + 1) >= 0
    /\ p + NonParenRun(s, p + 1) + 1 <= Len(s)

\* The optional scope group at p: "(", one or more tokens other than ")", ")".
ScopeGroupMatches(s, p) ==
    /\ p <= Len(s) /\ s[p] = "("
    /\ NonParenRun(s, p + 1) >= 1
    /\ p + NonParenRun(s, p + 1) + 1 <= Len(s)

\* The groups (ctype, scope, breaking, msg) of the match, or matched = FALSE.
ConventionalMatch(s) ==
    LET w == WordRun(s, 1)
        p == w + 1
        hasScope == ScopeGroupMatches(s, p)
        inner == IF hasScope THEN NonParenRun(s, p + 1) ELSE 0
        q == IF hasScope THEN p + inner + 2 ELSE p
        hasBang == q <= Len(s) /\ s[q] = "!"
        c == IF hasBang THEN q + 1 ELSE q
        hasColon == c <= Len(s) /\ s[c] = ":"
        m == c + 1 + SpaceRun(s, c + 1)
    IN  IF w >= 1 /\ hasColon
        THEN [matched |-> TRUE,
              ctype |-> SubSeq(s, 1, w),
              scope |-> IF hasScope THEN SubSeq(s, p + 1, p + inner) ELSE None,
              breaking |-> IF hasBang THEN "!" ELSE "",
              msg |-> SubSeq(s, m, Len(s))]
        ELSE [matched |-> FALSE, ctype |-> <<>>, scope |-> None,
              breaking |-> "", msg |-> <<>>]

\* A lookup that ignores the case of the type.
CatMapGet_anyCase(ctype) ==
    LET lower == IF ctype = <<"Feat">> THEN <<"feat">> ELSE ctype
    IN  IF Len(lower) = 1 /\ lower[1] \in DOMAIN CAT_MAP THEN CAT_MAP[lower[1]] ELSE "other"

\* CAT_MAP.get(ctype, 'other'): a run of several word tokens is no key.
CatMapGet(ctype) ==
    IF Len(ctype) = 1 /\ ctype[1] \in DOMAIN CAT_MAP THEN CAT_MAP[ctype[1]] ELSE "other"

\* Lines 697-704: the classification of one subject.
Classify(commit_message) ==
    LET match == ConventionalMatch(commit_message)
    IN  IF match.matched
        THEN [category |-> CatMapGet(match.ctype),
              scope |-> match.scope,
              is_breaking |-> match.breaking # "",
              msg |-> match.msg]
        ELSE [category |-> "other", scope |-> None,
              is_breaking |-> FALSE, msg |-> commit_message]

(***************************************************************************)
(* Numstat lines.  A stat line is the sequence of its tab-separated        *)
(* fields, so it holds Len - 1 tabs.                                       *)
(***************************************************************************)
IntValue ==
    [t \in {"0", "2", "5", "10"} |->
       CASE t = "0" -> 0 [] t = "2" -> 2 [] t = "5" -> 5 [] t = "10" -> 10]

\* int(field) raises ValueError for a field that is no integer literal.
RaisesValueError(field) == field \notin DOMAIN IntValue

\* A count read without the test for "-": int('-') raises.
CountRaises_noDash(field) == RaisesValueError(field)

\* "int(field) if field != '-' else 0" raises when int(field) is evaluated
\* and raises.
CountRaises(field) == field # "-" /\ RaisesValueError(field)
CountOf(field) == IF field # "-" THEN IntValue[field] ELSE 0

\* Lines 687-695: one iteration of the loop over lines[1:].  A ValueError
\* leaves the try block: of ins and outs, what was added stays added.
StatStep(acc, parts) ==
    IF Len(parts) >= 2 /\ Len(parts) >= 3
    THEN LET files == acc.files + 1
             insOk == ~CountRaises(parts[1])
             outsOk == ~CountRaises(parts[2])
             ins == IF insOk THEN acc.ins + CountOf(parts[1]) ELSE acc.ins
             outs == IF insOk /\ outsOk THEN acc.outs + CountOf(parts[2]) ELSE acc.outs
         IN  [ins |-> ins, outs |-> outs, files |-> files]
    ELSE acc

RECURSIVE StatLoop(_, _, _)
StatLoop(acc, stat_lines, i) ==
    IF i > Len(stat_lines) THEN acc
    ELSE StatLoop(StatStep(acc, stat_lines[i]), stat_lines, i + 1)

(***************************************************************************)
(* One chunk of the log.  blank: chunk.strip() is empty.  meta: the fields *)
(* of lines[0] split on FIELD_DELIMITER.  stats: lines[1:].  body_trailer: *)
(* whether the commit's message body holds a BREAKING CHANGE: trailer; the *)
(* log format asks git for %s, the subject, only, so no line of the chunk  *)
(* carries the body.                                                       *)
(***************************************************************************)
GoodDate == "2024-03-01T10:00:00+00:00"
BadDate == "yesterday"

\* datetime.fromisoformat raises ValueError for a string that is no ISO date.
FromIsoformatRaises(field) == field # GoodDate

\* A header test that is off by one.
IsMalformed_offByOne(meta) == Len(meta) <= 4

\* Line 680.
IsMalformed(meta) == Len(meta) < 4

\* Lines 673-725: the body of the loop over the chunks, for one chunk.
ChunkStep(acc, chunk) ==
    IF chunk.blank THEN acc
    ELSE IF IsMalformed(chunk.meta) THEN acc
    ELSE LET totals == StatLoop([ins |-> 0, outs |-> 0, files |-> 0], chunk.stats, 1)
             commit_message == chunk.meta[4]
             cls == Classify(commit_message)
         IN  IF FromIsoformatRaises(chunk.meta[3]) THEN acc
             ELSE Append(acc,
                    [hash |-> chunk.meta[1],
                     author_name |-> chunk.meta[2],
                     date |-> chunk.meta[3],
                     message |-> cls.msg,
                     full_message |-> commit_message,
                     category |-> cls.category,
                     scope |-> cls.scope,
                     is_breaking |-> cls.is_breaking,
                     insertions |-> totals.ins,
                     deletions |-> totals.outs,
                     files_changed |-> totals.files])

(***************************************************************************)
(* The logs git can hand to get_history.                                   *)
(***************************************************************************)
Chunk(meta, stats, trailer) ==
    [blank |-> FALSE, meta |-> meta, stats |-> stats, body_trailer |-> trailer]

BlankChunk == [blank |-> TRUE, meta |-> <<>>, stats |-> <<>>, body_trailer |-> FALSE]

\* One commit, any subject, no stat lines.
ClassifyInput(first, tail) ==
    <<Chunk(<<"h1", "alice", GoodDate, first \o tail>>, <<>>, FALSE)>>

\* "" is the empty line git prints before the stat lines, "x" a field that
\* is neither a number nor "-".
StatFields == {"2", "10", "-", "x"}
StatLines ==
    {<<"">>, <<"a.py">>, <<"5", "a.py">>, <<"5", "0", "a.py", "b.py">>}
        \cup {<<a, b, "a.py">> : a \in StatFields, b \in StatFields}

\* One commit with stat lines.
NumstatInput(st) ==
    <<Chunk(<<"h1", "alice", GoodDate, <<"fix", ":", " ", "x">>>>, st, FALSE)>>

\* Several chunks: blank ones, malformed headers, unparsable dates, a header
\* whose subject holds the field delimiter (five fields), a commit whose
\* body holds a BREAKING CHANGE: trailer.
SampleChunks ==
    {BlankChunk,
     Chunk(<<"h1", "alice", GoodDate>>, <<>>, FALSE),
     Chunk(<<"h1", "alice", GoodDate, <<"fix", ":">>, "x">>, <<>>, FALSE),
     Chunk(<<"h2", "bob", GoodDate, <<"feat", ":", " ", "x">>>>, <<>>, TRUE),
     Chunk(<<"h1", "alice", GoodDate, <<"refactor", "(", "x", ")", ":", " ", "x">>>>,
           <<<<"">>, <<"10", "2", "a.py">>, <<"5", "0", "b.py">>>>, FALSE)}
        \cup {Chunk(<<"h2", "bob", d, s>>, <<>>, FALSE) :
                d \in {GoodDate, BadDate},
                s \in {<<"feat", "!", ":", " ", "x">>, <<"x", " ", "x">>}}

(***************************************************************************)
(* GitIntelligence.get_history.                                            *)
(***************************************************************************)
\* get_history is called; the scorer is not run.
InitHistory ==
    /\ pc = "call"
    /\ outcome = "none"
    /\ raw_log = <<>>
    /\ idx = 0
    /\ commits = <<>>
    /\ retval = <<>>
    /\ td_pc = "off"
    /\ td_commits = <<>>
    /\ td_metrics = [supplied |-> FALSE, items |-> {}]
    /\ td_result = [total_commits |-> -1,
                    debt_commits |-> -1,
                    feature_commits |-> -1,
                    maintenance_commits |-> -1,
                    debt_percentage |-> <<-1, 1>>,
                    feature_percentage |-> <<-1, 1>>,
                    maintenance_percentage |-> <<-1, 1>>,
                    health_score |-> <<-1, 1>>,
                    complexity_score |-> <<-1, 1>>,
                    maintainability_index |-> <<-1, 1>>]
    /\ cm_pc = "off"
    /\ cm_lines = <<>>
    /\ cm_args = [loc |-> 0, complexity |-> 0, comments |-> 0]
    /\ cm_mi = <<-1, 1>>
    /\ cm_result = [loc |-> -1, sloc |-> -1, comment_lines |-> -1, functions |-> -1, classes |-> -1, complexity |-> -1, complexity_per_function |-> <<-1, 1>>, maintainability_index |-> <<-1, 1>>]
    /\ ch_pc = "off"
    /\ ch_churn = <<>>
    /\ ch_max_items = 0
    /\ ch_chart = [header |-> FALSE, rows |-> <<>>]
    /\ ch_commits = <<>>
    /\ ch_breakdown = {}
    /\ ch_authors = {}
    /\ px_pc = "off"
    /\ px_input = [file_path |-> "", lines |-> <<>>, language |-> ""]
    /\ px_classes = <<>>
    /\ px_runs = <<>>
    /\ run_pc = "off"
    /\ run_args = [no_git |-> FALSE, no_loc |-> FALSE, no_classes |-> FALSE]
    /\ run_env = [path |-> "dir", repo |-> "none", git |-> "ok", writable |-> TRUE]
    /\ run_is_git = FALSE
    /\ run_commits = <<>>
    /\ run_stats = [category_breakdown |-> {}, author_stats |-> {}]
    /\ run_events = <<>>
    /\ run_exit = -1
    /\ run_output = [built |-> FALSE, mode |-> "", duration_days |-> 0, history |-> <<>>, category_breakdown |-> {}, author_stats |-> {}, tech_debt_metrics |-> {}, file_churn |-> {}]
    /\ sc_pc = "off"
    /\ sc_files = <<>>
    /\ sc_raised = FALSE
    /\ sc_classes = <<>>
    /\ sc_metrics = [files_analyzed |-> -1, total_loc |-> -1, total_sloc |-> -1, total_comments |-> -1, total_complexity |-> -1, total_functions |-> -1, total_classes |-> -1, averages |-> {}, file_metrics |-> <<>>]
    /\ sc_graph = [nodes |-> <<>>, edges |-> <<>>, external_modules |-> <<>>]
    /\ sn_pc = "off"
    /\ sn_args = [lines |-> <<>>, start_line |-> 0, snip_format |-> ""]
    /\ sn_snippet = <<>>
    /\ fc_pc = "off"
    /\ fc_lines = <<>>
    /\ fc_stats = {}

\* Lines 656-663, 671: check_output returns the log; it is split in chunks.
GitLogReturns ==
    /\ pc = "call"
    /\ \/ \E first \in {<<>>} \cup {<<f>> : f \in Alphabet}, n \in 0..MaxTail :
             \E tail \in SeqsOfLen(TailTokens, IF first = <<>> THEN 0 ELSE n) :
                raw_log' = ClassifyInput(first, tail)
       \/ \E n \in 0..MaxStatLines : \E st \in SeqsOfLen(StatLines, n) :
             raw_log' = NumstatInput(st)
       \/ \E n \in 0..MaxChunks : \E log \in SeqsOfLen(SampleChunks, n) :
             raw_log' = log
    /\ outcome' = "ok"
    /\ idx' = 1
    /\ pc' = "loop"
    /\ UNCHANGED <<commits, retval>>
    /\ UNCHANGED histFrame

\* Lines 664-669: a non-zero exit or a timeout is caught, [] is returned.
GitLogFails ==
    /\ pc = "call"
    /\ \E e \in {"CalledProcessError", "TimeoutExpired"} : outcome' = e
    /\ retval' = <<>>
    /\ pc' = "returned"
    /\ UNCHANGED <<raw_log, idx, commits>>
    /\ UNCHANGED histFrame

\* Lines 656-669: an OSError of check_output (git cannot be started, the
\* working directory is gone) matches neither except clause.
GitLogCannotStart ==
    /\ pc = "call"
    /\ outcome' = "OSError"
    /\ pc' = "raised"
    /\ UNCHANGED <<raw_log, idx, commits, retval>>
    /\ UNCHANGED histFrame

\* Lines 672-725: one iteration of the loop over the chunks.
ProcessChunk ==
    /\ pc = "loop"
    /\ idx <= Len(raw_log)
    /\ commits' = ChunkStep(commits, raw_log[idx])
    /\ idx' = idx + 1
    /\ UNCHANGED <<pc, outcome, raw_log, retval>>
    /\ UNCHANGED histFrame

\* Line 726.
ReturnCommits ==
    /\ pc = "loop"
    /\ idx > Len(raw_log)
    /\ retval' = commits
    /\ pc' = "returned"
    /\ UNCHANGED <<outcome, raw_log, idx, commits>>
    /\ UNCHANGED histFrame

NextHistory ==
    \/ GitLogReturns
    \/ GitLogFails
    \/ GitLogCannotStart
    \/ ProcessChunk
    \/ ReturnCommits

(***************************************************************************)
(* Floats are modelled as exact fractions <<numerator, denominator>> in    *)
(* lowest terms with a positive denominator.                               *)
(***************************************************************************)
Abs(a) == IF a < 0 THEN -a ELSE a

RECURSIVE Gcd(_, _)
Gcd(a, b) == IF b = 0 THEN a ELSE Gcd(b, a % b)

Frac(n, d) ==
    LET g == Gcd(Abs(n), Abs(d))
        sgn == IF d < 0 THEN -1 ELSE 1
    IN  <<sgn * (n \div g), sgn * (d \div g)>>

Num(n) == <<n, 1>>
FAdd(a, b) == Frac(a[1] * b[2] + b[1] * a[2], a[2] * b[2])
FSub(a, b) == Frac(a[1] * b[2] - b[1] * a[2], a[2] * b[2])
FMul(a, b) == Frac(a[1] * b[1], a[2] * b[2])
FDiv(a, b) == Frac(a[1] * b[2], a[2] * b[1])
FLeq(a, b) == a[1] * b[2] <= b[1] * a[2]
FMax(a, b) == IF FLeq(b, a) THEN a ELSE b
FMin(a, b) == IF FLeq(a, b) THEN a ELSE b

(***************************************************************************)
(* A dictionary is the set of its <<key, value>> items, one per key;        *)
(* code_metrics = None is NoMetrics.                                       *)
(***************************************************************************)
NoMetrics == [supplied |-> FALSE, items |-> {}]
Dict(items) == [supplied |-> TRUE, items |-> items]
Keys(cm) == {kv[1] : kv \in cm.items}
ValueAt(cm, key) == (CHOOSE kv \in cm.items : kv[1] = key)[2]

\* "x.get(key, default) if x else default": None and {} are falsy.
GetIfTruthy(cm, key, default) ==
    IF cm.supplied /\ cm.items # {} /\ key \in Keys(cm)
    THEN ValueAt(cm, key) ELSE default

RECURSIVE SumComplexity(_, _)
SumComplexity(file_metrics, i) ==
    IF i > Len(file_metrics) THEN 0
    ELSE file_metrics[i].complexity + SumComplexity(file_metrics, i + 1)

RECURSIVE SumMaintainability(_, _)
SumMaintainability(file_metrics, i) ==
    IF i > Len(file_metrics) THEN Num(0)
    ELSE FAdd(file_metrics[i].maintainability_index,
              SumMaintainability(file_metrics, i + 1))

\* CodebaseAnalyzer.extract_complexity_metrics, lines 1236-1282, over the
\* per-file results of calculate_code_metrics: the totals, and the averages
\* when a file was analyzed (the key avg_complexity exists only then).
AggregateMetrics(file_metrics) ==
    LET n == Len(file_metrics)
        total == SumComplexity(file_metrics, 1)
        totals == {<<"files_analyzed", Num(n)>>, <<"total_complexity", Num(total)>>}
    IN  IF n > 0
        THEN Dict(totals \cup
                  {<<"avg_complexity", Frac(total, n)>>,
                   <<"avg_maintainability",
                     FDiv(SumMaintainability(file_metrics, 1), Num(n))>>})
        ELSE Dict(totals \cup {<<"avg_maintainability", Num(0)>>})

(***************************************************************************)
(* TechDebtCalculator.                                                     *)
(***************************************************************************)
DEBT_CATEGORIES == {"chore", "refactor", "style", "ci"}
FEATURE_CATEGORIES == {"feat", "bugfix", "features", "bugfixes"}
MAINTENANCE_CATEGORIES == {"docs", "test"}

\* sum(1 for c in commits if c.category in categories)
RECURSIVE CountIn(_, _, _)
CountIn(cs, categories, i) ==
    IF i > Len(cs) THEN 0
    ELSE (IF cs[i].category \in categories THEN 1 ELSE 0) + CountIn(cs, categories, i + 1)

\* (count / total) * 100 if total > 0 else 0
Percentage(count, total) ==
    IF total > 0 THEN FMul(FDiv(Num(count), Num(total)), Num(100)) ELSE Num(0)

\* A health score that is not capped at 100.
HealthScore_uncapped(feature_pct, debt_pct) ==
    IF ~FLeq(debt_pct, Num(0))
    THEN FAdd(FMul(FDiv(feature_pct, debt_pct), Num(50)), Num(50))
    ELSE Num(100)

\* Lines 574-577.
HealthScore(feature_pct, debt_pct) ==
    IF ~FLeq(debt_pct, Num(0))
    THEN FMin(Num(100), FAdd(FMul(FDiv(feature_pct, debt_pct), Num(50)), Num(50)))
    ELSE Num(100)

\* Lines 580-581.
ComplexityScore(code_metrics) ==
    LET avg_complexity == GetIfTruthy(code_metrics, "complexity", Num(0))
    IN  FMax(Num(0), FSub(Num(100), avg_complexity))

\* The dataclass, its fields in the order of its constructor's arguments.
TechDebtMetrics(total, debt, feat, maint, debt_pct, feat_pct, maint_pct, health, cx, mi) ==
    [total_commits |-> total,
     debt_commits |-> debt,
     feature_commits |-> feat,
     maintenance_commits |-> maint,
     debt_percentage |-> debt_pct,
     feature_percentage |-> feat_pct,
     maintenance_percentage |-> maint_pct,
     health_score |-> health,
     complexity_score |-> cx,
     maintainability_index |-> mi]

\* The computation without the early return for an empty list.
calculate_metrics_noEarlyReturn(cs, code_metrics) ==
    LET total == Len(cs)
        debt_pct == Percentage(CountIn(cs, DEBT_CATEGORIES, 1), total)
        feature_pct == Percentage(CountIn(cs, FEATURE_CATEGORIES, 1), total)
    IN  TechDebtMetrics(total,
                        CountIn(cs, DEBT_CATEGORIES, 1),
                        CountIn(cs, FEATURE_CATEGORIES, 1),
                        CountIn(cs, MAINTENANCE_CATEGORIES, 1),
                        debt_pct, feature_pct,
                        Percentage(CountIn(cs, MAINTENANCE_CATEGORIES, 1), total),
                        HealthScore(feature_pct, debt_pct),
                        ComplexityScore(code_metrics),
                        GetIfTruthy(code_metrics, "maintainability_index", Num(75)))

\* Lines 558-597.
calculate_metrics(cs, code_metrics) ==
    LET total == Len(cs)
        debt == CountIn(cs, DEBT_CATEGORIES, 1)
        features == CountIn(cs, FEATURE_CATEGORIES, 1)
        maintenance == CountIn(cs, MAINTENANCE_CATEGORIES, 1)
        debt_pct == Percentage(debt, total)
        feature_pct == Percentage(features, total)
        maintenance_pct == Percentage(maintenance, total)
    IN  IF total = 0
        THEN TechDebtMetrics(0, 0, 0, 0, Num(0), Num(0), Num(0), Num(0), Num(0), Num(0))
        ELSE TechDebtMetrics(total, debt, features, maintenance,
                             debt_pct, feature_pct, maintenance_pct,
                             HealthScore(feature_pct, debt_pct),
                             ComplexityScore(code_metrics),
                             GetIfTruthy(code_metrics, "maintainability_index", Num(75)))

\* The commits calculate_metrics is handed: those get_history builds from a
\* subject "<ctype>: x" (ctype is kept beside the category it was given), and
\* CommitInfo objects built directly with a category of the scorer's lists.
MinedCommit(t) == [ctype |-> t, category |-> Classify(<<t, ":", " ", "x">>).category]
DirectCommit(cat) == [ctype |-> "", category |-> cat]
DebtCommits ==
    {MinedCommit(t) : t \in TypeTokens}
        \cup {DirectCommit(cat) : cat \in {"refactor", "feat", "bugfix"}}

\* The per-file results aggregated: complexity and maintainability index.
FileMetrics ==
    {[complexity |-> 1, maintainability_index |-> Num(100)],
     [complexity |-> 150, maintainability_index |-> Num(0)]}

\* A caller's own dictionary with the keys calculate_metrics reads.
KeyedMetrics ==
    {Dict({<<"complexity", c>>, <<"maintainability_index", Num(60)>>}) :
        c \in {Num(10), Num(150)}}
        \cup {Dict({})}

\* No result yet.
NoResult == TechDebtMetrics(-1, -1, -1, -1, Num(-1), Num(-1), Num(-1), Num(-1),
                           Num(-1), Num(-1))

\* The scorer is run; get_history is not.
InitDebt ==
    /\ td_pc = "idle"
    /\ td_commits = <<>>
    /\ td_metrics = NoMetrics
    /\ td_result = NoResult
    /\ pc = "idle"
    /\ outcome = "none"
    /\ raw_log = <<>>
    /\ idx = 0
    /\ commits = <<>>
    /\ retval = <<>>
    /\ cm_pc = "off"
    /\ cm_lines = <<>>
    /\ cm_args = [loc |-> 0, complexity |-> 0, comments |-> 0]
    /\ cm_mi = <<-1, 1>>
    /\ cm_result = [loc |-> -1, sloc |-> -1, comment_lines |-> -1, functions |-> -1, classes |-> -1, complexity |-> -1, complexity_per_function |-> <<-1, 1>>, maintainability_index |-> <<-1, 1>>]
    /\ ch_pc = "off"
    /\ ch_churn = <<>>
    /\ ch_max_items = 0
    /\ ch_chart = [header |-> FALSE, rows |-> <<>>]
    /\ ch_commits = <<>>
    /\ ch_breakdown = {}
    /\ ch_authors = {}
    /\ px_pc = "off"
    /\ px_input = [file_path |-> "", lines |-> <<>>, language |-> ""]
    /\ px_classes = <<>>
    /\ px_runs = <<>>
    /\ run_pc = "off"
    /\ run_args = [no_git |-> FALSE, no_loc |-> FALSE, no_classes |-> FALSE]
    /\ run_env = [path |-> "dir", repo |-> "none", git |-> "ok", writable |-> TRUE]
    /\ run_is_git = FALSE
    /\ run_commits = <<>>
    /\ run_stats = [category_breakdown |-> {}, author_stats |-> {}]
    /\ run_events = <<>>
    /\ run_exit = -1
    /\ run_output = [built |-> FALSE, mode |-> "", duration_days |-> 0, history |-> <<>>, category_breakdown |-> {}, author_stats |-> {}, tech_debt_metrics |-> {}, file_churn |-> {}]
    /\ sc_pc = "off"
    /\ sc_files = <<>>
    /\ sc_raised = FALSE
    /\ sc_classes = <<>>
    /\ sc_metrics = [files_analyzed |-> -1, total_loc |-> -1, total_sloc |-> -1, total_comments |-> -1, total_complexity |-> -1, total_functions |-> -1, total_classes |-> -1, averages |-> {}, file_metrics |-> <<>>]
    /\ sc_graph = [nodes |-> <<>>, edges |-> <<>>, external_modules |-> <<>>]
    /\ sn_pc = "off"
    /\ sn_args = [lines |-> <<>>, start_line |-> 0, snip_format |-> ""]
    /\ sn_snippet = <<>>
    /\ fc_pc = "off"
    /\ fc_lines = <<>>
    /\ fc_stats = {}

\* extract_complexity_metrics runs over the files and its result is kept.
ExtractComplexityMetrics ==
    /\ td_pc = "idle"
    /\ \E n \in 0..MaxFiles : \E fm \in SeqsOfLen(FileMetrics, n) :
          td_metrics' = AggregateMetrics(fm)
    /\ td_pc' = "metrics"
    /\ UNCHANGED <<td_commits, td_result>>
    /\ UNCHANGED debtFrame

SupplyKeyedMetrics ==
    /\ td_pc = "idle"
    /\ \E cm \in KeyedMetrics : td_metrics' = cm
    /\ td_pc' = "metrics"
    /\ UNCHANGED <<td_commits, td_result>>
    /\ UNCHANGED debtFrame

\* calculate_metrics(commits, code_metrics), code_metrics defaulting to None.
CalculateMetrics ==
    /\ td_pc \in {"idle", "metrics"}
    /\ \E n \in 0..MaxCommits : \E cs \in SeqsOfLen(DebtCommits, n) :
          /\ td_commits' = cs
          /\ td_result' = calculate_metrics(cs, td_metrics)
    /\ td_pc' = "done"
    /\ UNCHANGED td_metrics
    /\ UNCHANGED debtFrame

NextDebt ==
    \/ ExtractComplexityMetrics
    \/ SupplyKeyedMetrics
    \/ CalculateMetrics

SpecDebt ==
    /\ InitDebt
    /\ [][NextDebt]_vars

(***************************************************************************)
(* The conventional grammar type(scope)!: desc, stated by its shape: a     *)
(* parse <<w, sc, b>> of a subject s splits it into a type of w word       *)
(* tokens, a parenthesized scope of sc tokens none of which is ")" (sc = 0 *)
(* for no scope), b = 1 for a "!" marker, and a ":" after them.            *)
(***************************************************************************)
Parses(s) ==
    {d \in (1..Len(s)) \X (0..Len(s)) \X {0, 1} :
        LET w == d[1]
            sc == d[2]
            b == d[3]
            after == IF sc > 0 THEN w + sc + 2 ELSE w
        IN  /\ \A i \in 1..w : IsWord(s[i])
            /\ sc > 0 => /\ w + sc + 2 <= Len(s)
                         /\ s[w + 1] = "("
                         /\ \A i \in (w + 2)..(w + 1 + sc) : s[i] # ")"
                         /\ s[w + sc + 2] = ")"
            /\ b = 1 => (after + 1 <= Len(s) /\ s[after + 1] = "!")
            /\ after + b + 1 <= Len(s)
            /\ s[after + b + 1] = ":"}

\* What the mapping table gives for a type, "other" for a type it lacks.
TableCategory(type) ==
    IF \E k \in DOMAIN CAT_MAP : type = <<k>> THEN CAT_MAP[type[1]] ELSE "other"

TableCategories == {CAT_MAP[k] : k \in DOMAIN CAT_MAP} \cup {"other"}

\* A chunk that yields a record: not blank, four header fields or more, a
\* date in ISO-8601.
Recordable(ch) == ~ch.blank /\ Len(ch.meta) >= 4 /\ ch.meta[3] = GoodDate

\* The indices of the recordable chunks among the first k of the log, in order.
RECURSIVE Kept(_, _)
Kept(log, k) ==
    IF k = 0 THEN <<>>
    ELSE IF Recordable(log[k]) THEN Append(Kept(log, k - 1), k) ELSE Kept(log, k - 1)

Processed == IF pc \in {"loop", "returned"} /\ outcome = "ok" THEN idx - 1 ELSE 0

\* The chunk the j-th record was built from.
SourceChunk(j) == raw_log[Kept(raw_log, Processed)[j]]
SubjectOf(j) == SourceChunk(j).meta[4]

\* C5: the records built so far are, in the order of the log, those of the
\* recordable chunks among the chunks processed, each the record its chunk
\* yields on its own; a blank chunk, a header of fewer than four fields or an
\* unparsable date adds nothing and raises nothing; the loop's list is what
\* get_history returns.
C5_ReturnsRecordableChunksInOrder ==
    outcome = "ok" =>
        LET kept == Kept(raw_log, Processed)
        IN  /\ pc \in {"loop", "returned"}
            /\ Len(commits) = Len(kept)
            /\ \A j \in 1..Len(kept) :
                  LET ch == raw_log[kept[j]]
                      alone == ChunkStep(<<>>, ch)
                  IN  /\ Len(alone) = 1
                      /\ commits[j] = alone[1]
                      /\ commits[j].hash = ch.meta[1]
                      /\ commits[j].author_name = ch.meta[2]
                      /\ commits[j].date = ch.meta[3]
                      /\ commits[j].full_message = ch.meta[4]
            /\ pc = "returned" => (Processed = Len(raw_log) /\ retval = commits)

C5_Witness ==
    /\ pc = "returned"
    /\ Len(raw_log) = 3
    /\ Recordable(raw_log[1])
    /\ ~raw_log[2].blank /\ Len(raw_log[2].meta) < 4
    /\ Recordable(raw_log[3])
    /\ Len(retval) = 2
    /\ retval[1].hash = "h2" /\ retval[2].hash = "h1"

\* C1: a record whose subject parses by the grammar has the category the
\* mapping table gives for the type of the parse, "other" for a type that is
\* no key of the table; every record's category is a value of the table or
\* "other".
C1_CategoryFromTable ==
    \A j \in 1..Len(commits) :
        /\ commits[j].category \in TableCategories
        /\ \A d \in Parses(SubjectOf(j)) :
              commits[j].category = TableCategory(SubSeq(SubjectOf(j), 1, d[1]))

C1_Witness ==
    /\ pc = "returned"
    /\ \E j \in 1..Len(retval) :
          /\ SubjectOf(j) = <<"perf", "(", "x", ")", ":">>
          /\ Parses(SubjectOf(j)) # {}
          /\ retval[j].category = "refactoring"

\* C2: a record whose subject parses by the grammar has is_breaking true
\* exactly when the subject holds the "!" marker or the commit's message
\* holds a BREAKING CHANGE: trailer.
C2_BreakingIffBangOrTrailer ==
    \A j \in 1..Len(commits) :
        Parses(SubjectOf(j)) # {} =>
            (commits[j].is_breaking <=>
                \/ \E d \in Parses(SubjectOf(j)) : d[3] = 1
                \/ SourceChunk(j).body_trailer)

\* C3: a record whose subject does not parse by the grammar has category
\* "other", no scope, is_breaking false and the whole subject as its message.
C3_UnmatchedIsOther ==
    \A j \in 1..Len(commits) :
        Parses(SubjectOf(j)) = {} =>
            /\ commits[j].category = "other"
            /\ commits[j].scope = None
            /\ commits[j].is_breaking = FALSE
            /\ commits[j].message = SubjectOf(j)

C3_Witness ==
    /\ pc = "returned"
    /\ Len(retval) = 1
    /\ SubjectOf(1) = <<"feat", "(", ")", ":", "x">>
    /\ Parses(SubjectOf(1)) = {}
    /\ retval[1].category = "other"
    /\ retval[1].message = <<"feat", "(", ")", ":", "x">>

\* A numstat line holds two tabs or more: three fields or more.
IsNumstat(line) == Len(line) >= 3
FieldValue(f) == IF f = "-" THEN 0 ELSE IntValue[f]
WellFormedStats(st) ==
    \A i \in 1..Len(st) :
        IsNumstat(st[i]) => \A k \in {1, 2} : st[i][k] \in DOMAIN IntValue \cup {"-"}

RECURSIVE FieldSum(_, _, _)
FieldSum(st, k, n) ==
    IF n = 0 THEN 0
    ELSE FieldSum(st, k, n - 1) + (IF IsNumstat(st[n]) THEN FieldValue(st[n][k]) ELSE 0)

\* C4: a record's files_changed is the number of numstat lines of its chunk
\* (the lines with two tabs or more); when the first two fields of each are
\* numbers or "-", its insertions are the sum of the first fields and its
\* deletions the sum of the second, "-" counting zero; the other lines add
\* nothing.
C4_NumstatTotals ==
    \A j \in 1..Len(commits) :
        LET st == SourceChunk(j).stats
        IN  /\ commits[j].files_changed =
                  Cardinality({i \in 1..Len(st) : IsNumstat(st[i])})
            /\ WellFormedStats(st) =>
                  /\ commits[j].insertions = FieldSum(st, 1, Len(st))
                  /\ commits[j].deletions = FieldSum(st, 2, Len(st))

C4_Witness ==
    /\ pc = "returned"
    /\ Len(retval) = 1
    /\ SourceChunk(1).stats = <<<<"5", "a.py">>, <<"-", "10", "a.py">>>>
    /\ retval[1].insertions = 0
    /\ retval[1].deletions = 10
    /\ retval[1].files_changed = 1

\* C6: when the git log invocation delivers no log (non-zero exit, timeout,
\* git not starting), get_history returns the empty list and does not raise.
C6_FailureReturnsEmpty ==
    outcome \notin {"none", "ok"} => (pc = "returned" /\ retval = <<>>)


(***************************************************************************)
(* The scorer's groups, as sets of categories and of commit types.         *)
(***************************************************************************)
DebtGroup == {"chore", "refactor", "style", "ci"}
FeatureGroup == {"feat", "bugfix", "features", "bugfixes"}
DebtTypes == {"chore", "refactor", "style", "ci"}
FeatureTypes == {"feat", "fix"}
MaintenanceTypes == {"docs", "test"}

NumberIn(cs, group) == Cardinality({i \in 1..Len(cs) : cs[i].category \in group})

\* The fraction f equals n / d.
Equals(f, n, d) == f[1] * d = n * f[2]

\* C7: for an empty commit list, with code metrics or without, every count,
\* every percentage and the health score of the result are 0.
C7_EmptyListAllZero ==
    (td_pc = "done" /\ Len(td_commits) = 0) =>
        /\ td_result.total_commits = 0
        /\ td_result.debt_commits = 0
        /\ td_result.feature_commits = 0
        /\ td_result.maintenance_commits = 0
        /\ td_result.debt_percentage = Num(0)
        /\ td_result.feature_percentage = Num(0)
        /\ td_result.maintenance_percentage = Num(0)
        /\ td_result.health_score = Num(0)

C7_Witness ==
    /\ td_pc = "done"
    /\ td_commits = <<>>
    /\ td_metrics.supplied
    /\ "avg_complexity" \in Keys(td_metrics)
    /\ td_result.health_score = Num(0)

\* C8: for a non-empty commit list, the debt and feature percentages are the
\* groups' counts over the total times 100; the health score is 100 when no
\* commit is in the debt group and min(100, (feature% / debt%) * 50 + 50)
\* otherwise, which is min(100, 50 * features / debt + 50).
C8_HealthScore ==
    (td_pc = "done" /\ Len(td_commits) > 0) =>
        LET total == Len(td_commits)
            debt == NumberIn(td_commits, DebtGroup)
            features == NumberIn(td_commits, FeatureGroup)
        IN  /\ Equals(td_result.debt_percentage, 100 * debt, total)
            /\ Equals(td_result.feature_percentage, 100 * features, total)
            /\ debt = 0 => td_result.health_score = Num(100)
            /\ debt > 0 =>
                  Equals(td_result.health_score,
                         Min(100 * debt, 50 * features + 50 * debt), debt)

C8_Witness ==
    /\ td_pc = "done"
    /\ Len(td_commits) = 3
    /\ NumberIn(td_commits, DebtGroup) = 2
    /\ NumberIn(td_commits, FeatureGroup) = 1
    /\ td_result.health_score = Num(75)

\* The list without its i-th commit.
Without(cs, i) == SubSeq(cs, 1, i - 1) \o SubSeq(cs, i + 1, Len(cs))

\* C9: every commit mined from a subject of type chore, refactor, style or
\* ci is counted in debt_commits (the count is one lower without it), every
\* commit of type feat or fix in feature_commits, every commit of type docs
\* or test in maintenance_commits.
C9_TypesCountedInGroups ==
    td_pc = "done" =>
        \A i \in 1..Len(td_commits) :
            LET rest == calculate_metrics(Without(td_commits, i), td_metrics)
                t == td_commits[i].ctype
            IN  /\ t \in DebtTypes =>
                      td_result.debt_commits = rest.debt_commits + 1
                /\ t \in FeatureTypes =>
                      td_result.feature_commits = rest.feature_commits + 1
                /\ t \in MaintenanceTypes =>
                      td_result.maintenance_commits = rest.maintenance_commits + 1

\* C10: for a non-empty commit list the complexity score is
\* max(0, 100 - averageComplexity) when the aggregated complexity metrics are
\* supplied, averageComplexity being their avg_complexity, and 0 when no
\* metrics are supplied.
C10_ComplexityScore ==
    (td_pc = "done" /\ Len(td_commits) > 0) =>
        /\ ~td_metrics.supplied => td_result.complexity_score = Num(0)
        /\ (td_metrics.supplied /\ "avg_complexity" \in Keys(td_metrics)) =>
              td_result.complexity_score =
                  FMax(Num(0), FSub(Num(100), ValueAt(td_metrics, "avg_complexity")))


SpecHistory ==
    /\ InitHistory
    /\ [][NextHistory]_vars

(***************************************************************************)
(* Source text.  A line of a file is its indentation and its text after    *)
(* strip(), a sequence of tokens: a word token stands for a word of the    *)
(* line, the others for the characters they show.  A line of white space   *)
(* has the empty text.  Tokens are apart by white space, except that the   *)
(* token Adjoined says that the tokens around it touch.                    *)
(***************************************************************************)
Adjoined == "^"

Line(indent, text) == [indent |-> indent, text |-> text]

StartsWith(text, tok) == Len(text) >= 1 /\ text[1] = tok
EndsWith(text, tok) == Len(text) >= 1 /\ text[Len(text)] = tok

\* The tokens that are no word (no run of \w characters).
Punctuation ==
    {"#", "//", "*", "/*", "*/", "(", ")", ":", ",", "&&", "||", "?", "<!--", "-->", "\n", Adjoined}
IsIdent(tok) == tok \notin Punctuation

\* The text before the first occurrence of tok (the whole text if there is none).
CutAt(text, tok) ==
    IF \E k \in 1..Len(text) : text[k] = tok
    THEN SubSeq(text, 1, (CHOOSE k \in 1..Len(text) :
                             text[k] = tok /\ \A j \in 1..(k - 1) : text[j] # tok) - 1)
    ELSE text

(***************************************************************************)
(* ComplexityAnalyzer.                                                     *)
(***************************************************************************)
\* Lines 334-349: the word patterns of COMPLEXITY_PATTERNS, each of weight 1.
COMPLEXITY_PATTERNS ==
    {"if", "elseif", "else", "for", "while", "do", "switch", "case", "catch", "and", "or"}

\* Lines 346-347: the patterns \b&& and \b\|\|, which ask for a word boundary
\* in front of the operator.
OPERATOR_PATTERNS == {"&&", "||"}

\* Line 357: re.IGNORECASE, on the words of the inputs.
Lowered(tok) == IF tok = "IF" THEN "if" ELSE IF tok = "OR" THEN "or" ELSE tok

\* A word boundary in front of token k: a word ends right there.
BoundaryBefore(text, k) == k >= 3 /\ text[k - 1] = Adjoined /\ IsIdent(text[k - 2])

\* Line 384: '#' to the end of the line is removed in every line (MULTILINE).
StripHash(lines) == [k \in 1..Len(lines) |-> CutAt(lines[k].text, "#")]

\* Line 385: the same for '//' but without MULTILINE, so that the end-of-text
\* anchor is reached only from the last line: only there is '//...' removed.
StripSlashes(texts) ==
    [k \in 1..Len(texts) |-> IF k = Len(texts) THEN CutAt(texts[k], "//") ELSE texts[k]]

\* ''.join(lines): the tokens of all lines, a "\n" after each line.
RECURSIVE Joined(_, _)
Joined(texts, i) ==
    IF i = 0 THEN <<>> ELSE Joined(texts, i - 1) \o texts[i] \o <<"\n">>

\* The lines of a text: the runs of tokens that the "\n" tokens end or part.
RECURSIVE LinesOf(_)
LinesOf(code) ==
    IF code = <<>> THEN <<>>
    ELSE IF \E k \in 1..Len(code) : code[k] = "\n"
         THEN LET k == CHOOSE k \in 1..Len(code) :
                          code[k] = "\n" /\ \A j \in 1..(k - 1) : code[j] # "\n"
              IN  <<SubSeq(code, 1, k - 1)>> \o LinesOf(SubSeq(code, k + 1, Len(code)))
         ELSE <<code>>

\* Lines 386-387: re.sub of open.*?close with DOTALL: every stretch from an
\* opening token to the next closing one is removed, line ends included.
RECURSIVE StripBlocks(_, _, _)
StripBlocks(code, open, close) ==
    IF \E k \in 1..Len(code) : code[k] = open /\ \E j \in (k + 1)..Len(code) : code[j] = close
    THEN LET k == CHOOSE k \in 1..Len(code) :
                     code[k] = open /\ \A h \in 1..(k - 1) : code[h] # open
             j == CHOOSE j \in (k + 1)..Len(code) :
                     code[j] = close /\ \A h \in (k + 1)..(j - 1) : code[h] # close
         IN  SubSeq(code, 1, k - 1) \o StripBlocks(SubSeq(code, j + 1, Len(code)), open, close)
    ELSE code

\* Lines 383-387: stripped_code, line by line.
StrippedCode(lines) ==
    LinesOf(StripBlocks(StripBlocks(Joined(StripSlashes(StripHash(lines)), Len(lines)),
                                    "/*", "*/"),
                        "<!--", "-->"))

\* The matches of the word patterns and of the two operator patterns in a line.
KeywordsIn(text) ==
    Cardinality({k \in 1..Len(text) : Lowered(text[k]) \in COMPLEXITY_PATTERNS})
        + Cardinality({k \in 1..Len(text) :
                          text[k] \in OPERATOR_PATTERNS /\ BoundaryBefore(text, k)})

\* Line 345: the pattern \b\?\s*.*\s*: finds a '?' behind a word and runs to
\* the last ':' of the line, so that a line holds one match at most.  (A
\* match runs into the next line only from a '?' that ends its line or to a
\* ':' that starts one; no line of the inputs has these.)
TernaryIn(text) ==
    IF \E k \in 1..Len(text) :
          /\ text[k] = "?" /\ BoundaryBefore(text, k)
          /\ \E j \in (k + 1)..Len(text) : text[j] = ":"
    THEN 1 ELSE 0

RECURSIVE SumKeywords(_, _)
SumKeywords(texts, i) ==
    IF i = 0 THEN 0
    ELSE SumKeywords(texts, i - 1) + KeywordsIn(texts[i]) + TernaryIn(texts[i])

\* Lines 351-360: one plus the number of matches of the patterns.
calculate_cyclomatic_complexity(texts) == 1 + SumKeywords(texts, Len(texts))

\* Lines 371-376 without the floor of line 375.
MiFormula_noFloor(loc, complexity, comments) ==
    LET sloc == loc - comments
        size == IF sloc >= 1 THEN sloc ELSE 1
        mi == FSub(FSub(FSub(Num(171), Frac(52 * complexity, 10)),
                        Frac(23 * complexity, 100)),
                   Frac(162 * size, 1000))
    IN  FMin(Num(100), FDiv(FMul(mi, Num(100)), Num(171)))

\* Lines 371-376: sloc = loc - comments;
\* mi = max(0, 171 - 5.2 c - 0.23 c - 16.2 max(1, sloc) / 100); min(100, mi 100 / 171).
MiFormula(loc, complexity, comments) ==
    LET sloc == loc - comments
        size == IF sloc >= 1 THEN sloc ELSE 1
        mi == FMax(Num(0), FSub(FSub(FSub(Num(171), Frac(52 * complexity, 10)),
                                     Frac(23 * complexity, 100)),
                                Frac(162 * size, 1000)))
    IN  FMin(Num(100), FDiv(FMul(mi, Num(100)), Num(171)))

\* Lines 362-376: 100.0 when loc is 0, else the formula.
calculate_maintainability_index(loc, complexity, comments) ==
    IF loc = 0 THEN Num(100) ELSE MiFormula(loc, complexity, comments)

\* Lines 390-393: the lines counted as comment lines.
IsCommentLine(line) ==
    \/ StartsWith(line.text, "#")
    \/ StartsWith(line.text, "//")
    \/ StartsWith(line.text, "*")
    \/ StartsWith(line.text, "/*") /\ EndsWith(line.text, "*/")

\* Lines 396-397: a declaring word followed by a word, anywhere in the code.
FUNCTION_WORDS ==
    {"function", "def", "func", "fn", "method", "void", "public", "private", "protected"}
CLASS_WORDS == {"class", "interface", "struct", "enum"}

DeclarationsIn(text, words) ==
    Cardinality({k \in 1..(Len(text) - 1) : text[k] \in words /\ IsIdent(text[k + 1])})

RECURSIVE SumDeclarations(_, _, _)
SumDeclarations(lines, words, i) ==
    IF i = 0 THEN 0
    ELSE SumDeclarations(lines, words, i - 1) + DeclarationsIn(lines[i].text, words)

\* Lines 378-414: calculate_code_metrics(file_path, lines).  The index is asked
\* for with code_lines as loc and comment_lines as comments (line 403).
calculate_code_metrics(lines) ==
    LET total_lines == Len(lines)
        comment_lines == Cardinality({k \in 1..Len(lines) : IsCommentLine(lines[k])})
        code_lines == total_lines - comment_lines
        functions == SumDeclarations(lines, FUNCTION_WORDS, Len(lines))
        classes == SumDeclarations(lines, CLASS_WORDS, Len(lines))
        complexity == calculate_cyclomatic_complexity(StrippedCode(lines))
    IN  [loc |-> total_lines,
         sloc |-> code_lines,
         comment_lines |-> comment_lines,
         functions |-> functions,
         classes |-> classes,
         complexity |-> complexity,
         complexity_per_function |->
             IF functions > 0 THEN Frac(complexity, functions) ELSE Num(0),
         maintainability_index |->
             calculate_maintainability_index(code_lines, complexity, comment_lines)]

(***************************************************************************)
(* Inputs of the complexity engine.                                        *)
(***************************************************************************)
MaxLines == 3       \* lines of a file given to calculate_code_metrics
MaxLoc == 3         \* the small line counts given to the index directly

MetricLines ==
    {Line(0, <<>>),
     Line(0, <<"x">>),
     Line(4, <<"if", "x", ":">>),
     Line(0, <<"#", "if">>),
     Line(0, <<"x", "#", "if">>),
     Line(0, <<"//", "if">>),
     Line(0, <<"def", "m", "(", ")", ":">>),
     Line(0, <<"a", "&&", "b", "||", "c">>),
     Line(0, <<"a", Adjoined, "&&", Adjoined, "b", Adjoined, "||", "c">>),
     Line(0, <<"c", "?", "x", ":", "y">>),
     Line(0, <<"c", Adjoined, "?", "x", ":", "IF", "y">>),
     Line(0, <<"x", "//", "while">>),
     Line(0, <<"x", "/*", "if">>),
     Line(4, <<"for", "*/", "y">>),
     Line(0, <<"<!--", "if", "-->", "or">>)}

SampleLoc == (0..MaxLoc) \cup {100, 1000, 100000}
SampleComplexity == {1, 2, 31, 32, 150}
SampleComments == {0, 1, 5}

InitMetrics ==
    /\ cm_pc = "idle"
    /\ cm_lines = <<>>
    /\ cm_args = [loc |-> 0, complexity |-> 0, comments |-> 0]
    /\ cm_mi = <<-1, 1>>
    /\ cm_result = [loc |-> -1, sloc |-> -1, comment_lines |-> -1, functions |-> -1, classes |-> -1, complexity |-> -1, complexity_per_function |-> <<-1, 1>>, maintainability_index |-> <<-1, 1>>]
    /\ pc = "idle"
    /\ outcome = "none"
    /\ raw_log = <<>>
    /\ idx = 0
    /\ commits = <<>>
    /\ retval = <<>>
    /\ td_pc = "off"
    /\ td_commits = <<>>
    /\ td_metrics = [supplied |-> FALSE, items |-> {}]
    /\ td_result = [total_commits |-> -1, debt_commits |-> -1, feature_commits |-> -1, maintenance_commits |-> -1, debt_percentage |-> <<-1, 1>>, feature_percentage |-> <<-1, 1>>, maintenance_percentage |-> <<-1, 1>>, health_score |-> <<-1, 1>>, complexity_score |-> <<-1, 1>>, maintainability_index |-> <<-1, 1>>]
    /\ ch_pc = "off"
    /\ ch_churn = <<>>
    /\ ch_max_items = 0
    /\ ch_chart = [header |-> FALSE, rows |-> <<>>]
    /\ ch_commits = <<>>
    /\ ch_breakdown = {}
    /\ ch_authors = {}
    /\ px_pc = "off"
    /\ px_input = [file_path |-> "", lines |-> <<>>, language |-> ""]
    /\ px_classes = <<>>
    /\ px_runs = <<>>
    /\ run_pc = "off"
    /\ run_args = [no_git |-> FALSE, no_loc |-> FALSE, no_classes |-> FALSE]
    /\ run_env = [path |-> "dir", repo |-> "none", git |-> "ok", writable |-> TRUE]
    /\ run_is_git = FALSE
    /\ run_commits = <<>>
    /\ run_stats = [category_breakdown |-> {}, author_stats |-> {}]
    /\ run_events = <<>>
    /\ run_exit = -1
    /\ run_output = [built |-> FALSE, mode |-> "", duration_days |-> 0, history |-> <<>>, category_breakdown |-> {}, author_stats |-> {}, tech_debt_metrics |-> {}, file_churn |-> {}]
    /\ sc_pc = "off"
    /\ sc_files = <<>>
    /\ sc_raised = FALSE
    /\ sc_classes = <<>>
    /\ sc_metrics = [files_analyzed |-> -1, total_loc |-> -1, total_sloc |-> -1, total_comments |-> -1, total_complexity |-> -1, total_functions |-> -1, total_classes |-> -1, averages |-> {}, file_metrics |-> <<>>]
    /\ sc_graph = [nodes |-> <<>>, edges |-> <<>>, external_modules |-> <<>>]
    /\ sn_pc = "off"
    /\ sn_args = [lines |-> <<>>, start_line |-> 0, snip_format |-> ""]
    /\ sn_snippet = <<>>
    /\ fc_pc = "off"
    /\ fc_lines = <<>>
    /\ fc_stats = {}

\* calculate_code_metrics runs on the lines of a file.
CalculateCodeMetrics ==
    /\ cm_pc = "idle"
    /\ \E n \in 0..MaxLines : \E ls \in SeqsOfLen(MetricLines, n) :
          LET r == calculate_code_metrics(ls)
          IN  /\ cm_lines' = ls
              /\ cm_result' = r
              /\ cm_args' = [loc |-> r.sloc, complexity |-> r.complexity,
                             comments |-> r.comment_lines]
              /\ cm_mi' = r.maintainability_index
    /\ cm_pc' = "metrics"
    /\ UNCHANGED metricFrame

\* calculate_maintainability_index is called with arguments of its caller's choice.
CalculateMaintainabilityIndex ==
    /\ cm_pc = "idle"
    /\ \E loc \in SampleLoc, complexity \in SampleComplexity, comments \in SampleComments :
          /\ cm_args' = [loc |-> loc, complexity |-> complexity, comments |-> comments]
          /\ cm_mi' = calculate_maintainability_index(loc, complexity, comments)
    /\ cm_pc' = "index"
    /\ UNCHANGED <<cm_lines, cm_result>>
    /\ UNCHANGED metricFrame

NextMetrics ==
    \/ CalculateCodeMetrics
    \/ CalculateMaintainabilityIndex

SpecMetrics == InitMetrics /\ [][NextMetrics]_vars

(***************************************************************************)
(* The maintainability index.                                              *)
(***************************************************************************)
\* The formula on the arguments of a call, in thousandths: the floor at 0 of
\* 171000 - 5430 c - 162 max(1, loc - comments), scaled by 100 / 171.
FormulaThousandths(args) ==
    LET size == IF args.loc - args.comments >= 1 THEN args.loc - args.comments ELSE 1
        raw == 171000 - 5430 * args.complexity - 162 * size
    IN  IF raw >= 0 THEN raw ELSE 0

\* C11: calculate_code_metrics gives a file of zero lines the index 100
\* exactly, and a file of at least one line never takes the zero-line
\* shortcut: its index is the value of the formula.
C11_ShortcutOnlyForZeroLines ==
    cm_pc = "metrics" =>
        /\ Len(cm_lines) = 0 => cm_mi = Num(100)
        /\ Len(cm_lines) >= 1 => cm_mi = Frac(FormulaThousandths(cm_args) * 100, 171000)

\* C12: whatever the line count, the comment-line count and the complexity
\* (at least 1), the maintainability index lies between 0 and 100.
C12_IndexInRange ==
    cm_pc \in {"metrics", "index"} =>
        /\ cm_args.complexity >= 1
        /\ cm_mi[2] > 0
        /\ 0 <= cm_mi[1]
        /\ cm_mi[1] <= 100 * cm_mi[2]

\* The floor is reached: complexity 150 on 1000 lines has index 0.
C12_Witness ==
    /\ cm_pc = "index"
    /\ cm_args = [loc |-> 1000, complexity |-> 150, comments |-> 5]
    /\ cm_mi = Num(0)

(***************************************************************************)
(* Dictionaries that are built key by key: sets of <<key, value>> pairs    *)
(* with one pair for a key.                                                *)
(***************************************************************************)
DictGet(d, key, default) ==
    IF \E kv \in d : kv[1] = key THEN (CHOOSE kv \in d : kv[1] = key)[2] ELSE default
DictPut(d, key, value) == {kv \in d : kv[1] # key} \cup {<<key, value>>}

(***************************************************************************)
(* generate_hotspot_chart.                                                 *)
(***************************************************************************)
\* sorted(..., key=lambda x: -x[1]['changes']) is stable: an item goes behind
\* the items of no fewer changes that came before it.
InsertByChanges_ascending(sorted, item) ==
    LET k == Cardinality({j \in 1..Len(sorted) : sorted[j].changes <= item.changes})
    IN  SubSeq(sorted, 1, k) \o <<item>> \o SubSeq(sorted, k + 1, Len(sorted))

InsertByChanges(sorted, item) ==
    LET k == Cardinality({j \in 1..Len(sorted) : sorted[j].changes >= item.changes})
    IN  SubSeq(sorted, 1, k) \o <<item>> \o SubSeq(sorted, k + 1, Len(sorted))

RECURSIVE SortByChanges(_, _)
SortByChanges(items, i) ==
    IF i = 0 THEN <<>> ELSE InsertByChanges(SortByChanges(items, i - 1), items[i])

\* The slice s[:n].
SliceTo(s, n) ==
    IF n >= 0 THEN SubSeq(s, 1, Min(n, Len(s)))
    ELSE SubSeq(s, 1, IF Len(s) + n >= 0 THEN Len(s) + n ELSE 0)

\* Lines 1396-1417.  The chart is its two header lines and one row for a listed
\* file, showing the path (all of it: paths here are shorter than 40
\* characters), the changes and the commits; the length of the bar drawn in
\* a row is not modelled.
generate_hotspot_chart(file_churn, max_items) ==
    IF Len(file_churn) = 0 THEN [header |-> FALSE, rows |-> <<>>]
    ELSE [header |-> TRUE,
          rows |-> SliceTo(SortByChanges(file_churn, Len(file_churn)), max_items)]

(***************************************************************************)
(* get_category_breakdown and get_author_stats.                            *)
(***************************************************************************)
\* A loop that stores 1 for the category of every commit it meets.
RECURSIVE CategoryLoop_overwrite(_, _)
CategoryLoop_overwrite(cs, i) ==
    IF i = 0 THEN {}
    ELSE DictPut(CategoryLoop_overwrite(cs, i - 1), cs[i].category, 1)

\* Lines 730-731: breakdown[category] = breakdown.get(category, 0) + 1.
RECURSIVE CategoryLoop(_, _)
CategoryLoop(cs, i) ==
    IF i = 0 THEN {}
    ELSE LET breakdown == CategoryLoop(cs, i - 1)
         IN  DictPut(breakdown, cs[i].category,
                     DictGet(breakdown, cs[i].category, 0) + 1)

\* Lines 728-732.
get_category_breakdown(cs) == CategoryLoop(cs, Len(cs))

\* Lines 737-739: the entry a new author starts with.
NewAuthor == [commits |-> 0, insertions |-> 0, deletions |-> 0, files_changed |-> 0]

\* Lines 736-746.
RECURSIVE AuthorLoop(_, _)
AuthorLoop(cs, i) ==
    IF i = 0 THEN {}
    ELSE LET author_stats == AuthorLoop(cs, i - 1)
             old == DictGet(author_stats, cs[i].author_name, NewAuthor)
         IN  DictPut(author_stats, cs[i].author_name,
                     [commits |-> old.commits + 1,
                      insertions |-> old.insertions + cs[i].insertions,
                      deletions |-> old.deletions + cs[i].deletions,
                      files_changed |-> old.files_changed + cs[i].files_changed])

\* Lines 734-748.
get_author_stats(cs) == AuthorLoop(cs, Len(cs))

(***************************************************************************)
(* Inputs of the report helpers.                                           *)
(***************************************************************************)
MaxItems == 3       \* max_items
MaxChurn == 3       \* files of file_churn
MaxHistory == 2     \* commits given to the statistics

Paths == {"a", "b", "c"}
SampleChanges == {0, 30, 50, 120}
SampleCommitCounts == {1, 2}

IsInjective(s) == \A i, j \in 1..Len(s) : s[i] = s[j] => i = j

StatCommits ==
    [author_name : {"ann", "bob"}, category : {"features", "bugfixes"},
     insertions : {0, 2}, deletions : {0, 3}, files_changed : {1, 4}]

InitCharts ==
    /\ ch_pc = "idle"
    /\ ch_churn = <<>>
    /\ ch_max_items = 0
    /\ ch_chart = [header |-> FALSE, rows |-> <<>>]
    /\ ch_commits = <<>>
    /\ ch_breakdown = {}
    /\ ch_authors = {}
    /\ td_pc = "off"
    /\ td_commits = <<>>
    /\ td_metrics = [supplied |-> FALSE, items |-> {}]
    /\ td_result = [total_commits |-> -1, debt_commits |-> -1, feature_commits |-> -1, maintenance_commits |-> -1, debt_percentage |-> <<-1, 1>>, feature_percentage |-> <<-1, 1>>, maintenance_percentage |-> <<-1, 1>>, health_score |-> <<-1, 1>>, complexity_score |-> <<-1, 1>>, maintainability_index |-> <<-1, 1>>]
    /\ pc = "idle"
    /\ outcome = "none"
    /\ raw_log = <<>>
    /\ idx = 0
    /\ commits = <<>>
    /\ retval = <<>>
    /\ cm_pc = "off"
    /\ cm_lines = <<>>
    /\ cm_args = [loc |-> 0, complexity |-> 0, comments |-> 0]
    /\ cm_mi = <<-1, 1>>
    /\ cm_result = [loc |-> -1, sloc |-> -1, comment_lines |-> -1, functions |-> -1, classes |-> -1, complexity |-> -1, complexity_per_function |-> <<-1, 1>>, maintainability_index |-> <<-1, 1>>]
    /\ px_pc = "off"
    /\ px_input = [file_path |-> "", lines |-> <<>>, language |-> ""]
    /\ px_classes = <<>>
    /\ px_runs = <<>>
    /\ run_pc = "off"
    /\ run_args = [no_git |-> FALSE, no_loc |-> FALSE, no_classes |-> FALSE]
    /\ run_env = [path |-> "dir", repo |-> "none", git |-> "ok", writable |-> TRUE]
    /\ run_is_git = FALSE
    /\ run_commits = <<>>
    /\ run_stats = [category_breakdown |-> {}, author_stats |-> {}]
    /\ run_events = <<>>
    /\ run_exit = -1
    /\ run_output = [built |-> FALSE, mode |-> "", duration_days |-> 0, history |-> <<>>, category_breakdown |-> {}, author_stats |-> {}, tech_debt_metrics |-> {}, file_churn |-> {}]
    /\ sc_pc = "off"
    /\ sc_files = <<>>
    /\ sc_raised = FALSE
    /\ sc_classes = <<>>
    /\ sc_metrics = [files_analyzed |-> -1, total_loc |-> -1, total_sloc |-> -1, total_comments |-> -1, total_complexity |-> -1, total_functions |-> -1, total_classes |-> -1, averages |-> {}, file_metrics |-> <<>>]
    /\ sc_graph = [nodes |-> <<>>, edges |-> <<>>, external_modules |-> <<>>]
    /\ sn_pc = "off"
    /\ sn_args = [lines |-> <<>>, start_line |-> 0, snip_format |-> ""]
    /\ sn_snippet = <<>>
    /\ fc_pc = "off"
    /\ fc_lines = <<>>
    /\ fc_stats = {}

\* generate_hotspot_chart(file_churn, max_items) is called.
GenerateHotspotChart ==
    /\ ch_pc = "idle"
    /\ \E n \in 0..MaxChurn, max_items \in 0..MaxItems :
          \E ps \in SeqsOfLen(Paths, n), chs \in SeqsOfLen(SampleChanges, n),
             cms \in SeqsOfLen(SampleCommitCounts, n) :
             LET file_churn == [k \in 1..n |->
                                  [path |-> ps[k], changes |-> chs[k], commits |-> cms[k]]]
             IN  /\ IsInjective(ps)
                 /\ ch_churn' = file_churn
                 /\ ch_max_items' = max_items
                 /\ ch_chart' = generate_hotspot_chart(file_churn, max_items)
    /\ ch_pc' = "hotspot"
    /\ UNCHANGED <<ch_commits, ch_breakdown, ch_authors>>
    /\ UNCHANGED chartFrame

\* Lines 1979-1980: both statistics are taken of one commit list.
CommitStatistics ==
    /\ ch_pc = "idle"
    /\ \E n \in 0..MaxHistory : \E cs \in SeqsOfLen(StatCommits, n) :
          /\ ch_commits' = cs
          /\ ch_breakdown' = get_category_breakdown(cs)
          /\ ch_authors' = get_author_stats(cs)
    /\ ch_pc' = "stats"
    /\ UNCHANGED <<ch_churn, ch_max_items, ch_chart>>
    /\ UNCHANGED chartFrame

NextCharts ==
    \/ GenerateHotspotChart
    \/ CommitStatistics

SpecCharts == InitCharts /\ [][NextCharts]_vars

(***************************************************************************)
(* The hotspot ranking and the commit statistics.                          *)
(***************************************************************************)
Listed(path) == \E i \in 1..Len(ch_chart.rows) : ch_chart.rows[i].path = path

\* C13: the hotspot chart lists files in non-increasing order of their
\* changes and holds at most max_items files, the max_items files of the
\* largest changes (all files if there are fewer).
C13_HotspotRanking ==
    ch_pc = "hotspot" =>
        LET rows == ch_chart.rows
        IN  /\ \A i, j \in 1..Len(rows) : i < j => rows[i].changes >= rows[j].changes
            /\ Len(rows) <= ch_max_items
            /\ Len(rows) = Min(ch_max_items, Len(ch_churn))
            /\ \A i \in 1..Len(rows) : \E k \in 1..Len(ch_churn) : rows[i] = ch_churn[k]
            /\ \A i, j \in 1..Len(rows) : rows[i].path = rows[j].path => i = j
            /\ \A k \in 1..Len(ch_churn) :
                  ~Listed(ch_churn[k].path) =>
                      \A i \in 1..Len(rows) : rows[i].changes >= ch_churn[k].changes

\* Changes a: 50, b: 120, c: 30 and max_items 2: the chart lists b, then a.
C13_Witness ==
    /\ ch_pc = "hotspot"
    /\ ch_max_items = 2
    /\ Len(ch_churn) = 3
    /\ [k \in 1..3 |-> <<ch_churn[k].path, ch_churn[k].changes>>]
          = <<<<"a", 50>>, <<"b", 120>>, <<"c", 30>>>>
    /\ Len(ch_chart.rows) = 2
    /\ ch_chart.rows[1].path = "b"
    /\ ch_chart.rows[2].path = "a"

CommitsWith(field, value) == {i \in 1..Len(ch_commits) : ch_commits[i][field] = value}

RECURSIVE TotalOver(_, _)
TotalOver(indices, field) ==
    IF indices = {} THEN 0
    ELSE LET i == CHOOSE i \in indices : TRUE
         IN  ch_commits[i][field] + TotalOver(indices \ {i}, field)

RECURSIVE SumOfValues(_)
SumOfValues(d) ==
    IF d = {} THEN 0
    ELSE LET kv == CHOOSE kv \in d : TRUE IN kv[2] + SumOfValues(d \ {kv})

\* C14: category_breakdown maps each category to the number of commits having
\* it (no category with count 0, the values sum to the number of commits), and
\* author_stats maps each author to the number of their commits and the sums
\* of their insertions, deletions and files_changed.
C14_BreakdownAndAuthorStats ==
    ch_pc = "stats" =>
        /\ ch_breakdown =
              {<<ch_commits[i].category,
                 Cardinality(CommitsWith("category", ch_commits[i].category))>> :
                    i \in 1..Len(ch_commits)}
        /\ \A kv \in ch_breakdown : kv[2] > 0
        /\ SumOfValues(ch_breakdown) = Len(ch_commits)
        /\ ch_authors =
              {<<ch_commits[i].author_name,
                 LET mine == CommitsWith("author_name", ch_commits[i].author_name)
                 IN  [commits |-> Cardinality(mine),
                      insertions |-> TotalOver(mine, "insertions"),
                      deletions |-> TotalOver(mine, "deletions"),
                      files_changed |-> TotalOver(mine, "files_changed")]>> :
                    i \in 1..Len(ch_commits)}

\* Two commits of one author, a feature and a bugfix.
C14_Witness ==
    /\ ch_pc = "stats"
    /\ Len(ch_commits) = 2
    /\ ch_commits[1].author_name = ch_commits[2].author_name
    /\ ch_breakdown = {<<"features", 1>>, <<"bugfixes", 1>>}
    /\ \E kv \in ch_authors : kv[2].commits = 2 /\ kv[2].insertions = 4

(***************************************************************************)
(* CodebaseAnalyzer._parse_code_file and its helpers.                      *)
(***************************************************************************)
\* The position after an optional leading word of the set words.
SkipOptional(text, p, words) == IF p <= Len(text) /\ text[p] \in words THEN p + 1 ELSE p

\* A word of the set words at position p followed by a name: the position of the
\* name, 0 if there is none.
NameAfter(text, p, words) ==
    IF p + 1 <= Len(text) /\ text[p] \in words /\ IsIdent(text[p + 1]) THEN p + 1 ELSE 0

\* Line 952: class, a name, optionally a non-empty parenthesis without ')'
\* inside, and a colon.  The position of the closing parenthesis, 0 without
\* bases, -1 if the line does not match.
PythonClassMatch(text) ==
    IF ~(Len(text) >= 3 /\ text[1] = "class" /\ IsIdent(text[2])) THEN -1
    ELSE IF text[3] = ":" THEN 0
    ELSE IF text[3] = "(" /\ \E p \in 5..(Len(text) - 1) :
                                  /\ text[p] = ")"
                                  /\ \A q \in 4..(p - 1) : text[q] # ")"
                                  /\ text[p + 1] = ":"
         THEN CHOOSE p \in 5..(Len(text) - 1) :
                  text[p] = ")" /\ \A q \in 4..(p - 1) : text[q] # ")"
    ELSE -1

\* Line 965: the names between the commas of the parenthesis.
BasesOf(text, close) ==
    IF close <= 0 THEN <<>>
    ELSE SelectSeq(SubSeq(text, 4, close - 1), LAMBDA t : t # ",")

\* Line 971: def, a name, an opening parenthesis.
PythonDefMatch(text) ==
    Len(text) >= 3 /\ text[1] = "def" /\ IsIdent(text[2]) /\ text[3] = "("

\* Lines 974-982: one of the up to five lines after line i is not blank, is no
\* '#' comment, is indented and does not start with def.
IsMethod(lines, i) ==
    \E k \in (i + 1)..Min(i + 5, Len(lines)) :
        /\ lines[k].text # <<>>
        /\ ~StartsWith(lines[k].text, "#")
        /\ lines[k].indent > 0
        /\ ~StartsWith(lines[k].text, "def")

TripleQuotes == {"\"\"\"", "'''"}

\* Lines 1093-1105: the text between triple quotes on line start_line, which is
\* the line of the declaration itself.
get_docstring(lines, start_line) ==
    IF start_line > Len(lines) THEN None
    ELSE LET next_line == lines[start_line].text
             n == Len(next_line)
         IN  IF /\ n >= 2
                /\ next_line[1] \in TripleQuotes
                /\ \E k \in 2..n : next_line[k] \in TripleQuotes
                /\ next_line[n] = (IF \E k \in 2..n : next_line[k] = "\"\"\""
                                   THEN "\"\"\"" ELSE "'''")
             THEN SubSeq(next_line, 2, n - 1)
             ELSE None

\* Lines 1138-1147: the text between '/**' and the first '*/' of line start_line.
get_js_docstring(lines, start_line) ==
    IF start_line > Len(lines) THEN None
    ELSE LET line == lines[start_line].text
             opens == {k \in 1..Len(line) : line[k] = "/**"}
         IN  IF \E k \in opens : \E j \in (k + 1)..Len(line) : line[j] = "*/"
             THEN LET k == CHOOSE k \in opens :
                              /\ \E j \in (k + 1)..Len(line) : line[j] = "*/"
                              /\ \A h \in opens : h < k =>
                                    ~\E j \in (h + 1)..Len(line) : line[j] = "*/"
                      j == CHOOSE j \in (k + 1)..Len(line) :
                              line[j] = "*/" /\ \A h \in (k + 1)..(j - 1) : line[h] # "*/"
                  IN  SelectSeq(SubSeq(line, k + 1, j - 1), LAMBDA t : t # "*")
             ELSE None

\* Only a blank line ends the snippet.
EndsSnippet_blankOnly(line) == line.text = <<>>

\* Lines 1128-1132: a later line of the snippet that ends it: a blank line, or
\* a line that is no comment and has no four spaces in front, unless it is a
\* decorator.
EndsSnippet(line) ==
    /\ \/ line.text = <<>>
       \/ /\ ~StartsWith(line.text, "#")
          /\ ~StartsWith(line.text, "//")
          /\ ~StartsWith(line.text, "*")
          /\ line.indent < 4
    /\ ~StartsWith(line.text, "@")

RECURSIVE SnippetEnd(_, _, _, _)
SnippetEnd(lines, start_line, k, last) ==
    IF k >= last THEN last
    ELSE IF k > start_line /\ EndsSnippet(lines[k]) THEN k
    ELSE SnippetEnd(lines, start_line, k + 1, last)

\* Lines 1118-1122: max_lines of a format.
MaxSnippetLines(snip_format) == IF snip_format = "long" THEN 50 ELSE 20

\* Lines 1107-1136: the lines of the snippet, the last of which is the line
\* that ended it.  The snippet is never empty, and the empty sequence stands
\* for None.
GetCodeSnippet(lines, start_line, snip_format) ==
    IF start_line > Len(lines) THEN <<>>
    ELSE SubSeq(lines, start_line,
                SnippetEnd(lines, start_line, start_line,
                           Min(start_line - 1 + MaxSnippetLines(snip_format), Len(lines))))

\* Line 1107: snip_format is 'short' unless given; the parser does not give it.
get_code_snippet(lines, start_line) == GetCodeSnippet(lines, start_line, "short")

\* Line 1166: four spaces, def and a name at the start of the line.
MethodMatch(line) ==
    line.indent = 4 /\ Len(line.text) >= 2 /\ line.text[1] = "def" /\ IsIdent(line.text[2])

\* Lines 1156-1168, from line k to line last.
RECURSIVE MethodsLoop(_, _, _, _)
MethodsLoop(lines, base_indent, k, last) ==
    IF k > last THEN <<>>
    ELSE IF lines[k].text = <<>> THEN MethodsLoop(lines, base_indent, k + 1, last)
    ELSE IF lines[k].indent <= base_indent /\ ~StartsWith(lines[k].text, "#") THEN <<>>
    ELSE (IF MethodMatch(lines[k]) THEN <<lines[k].text[2]>> ELSE <<>>)
             \o MethodsLoop(lines, base_indent, k + 1, last)

\* Lines 1149-1170.
get_python_methods(lines, start_line) ==
    IF start_line > Len(lines) THEN <<>>
    ELSE MethodsLoop(lines, lines[start_line].indent, start_line + 1,
                     Min(start_line + 100, Len(lines)))

\* Lines 188-200: a ClassInfo; is_test and complexity keep their defaults.
ClassInfo(name, file_path, line_number, class_type, language, docstring, methods, bases, code_snippet) ==
    [name |-> name,
     file_path |-> file_path,
     line_number |-> line_number,
     class_type |-> class_type,
     language |-> language,
     is_test |-> FALSE,
     docstring |-> docstring,
     methods |-> methods,
     bases |-> bases,
     code_snippet |-> code_snippet,
     complexity |-> 0]

\* Lines 951-996: the entities of line i of a Python file.
PythonEntities(file_path, lines, i) ==
    LET text == lines[i].text
        close == PythonClassMatch(text)
    IN  IF close >= 0
        THEN <<ClassInfo(text[2], file_path, i, "class", "python", get_docstring(lines, i),
                         get_python_methods(lines, i), BasesOf(text, close),
                         get_code_snippet(lines, i))>>
        ELSE IF PythonDefMatch(text) /\ ~IsMethod(lines, i)
        THEN <<ClassInfo(text[2], file_path, i, "function", "python",
                         get_docstring(lines, i), <<>>, <<>>, get_code_snippet(lines, i))>>
        ELSE <<>>

\* Line 1019: an optional const, let or var (after an optional export), a
\* name, '=', an optional async, a parenthesis and '=>'.  The position of the
\* name, 0 if the line does not match.
ArrowMatch(text) ==
    LET Fits(p) ==
            /\ p + 1 <= Len(text) /\ IsIdent(text[p]) /\ text[p + 1] = "="
            /\ LET o == SkipOptional(text, p + 2, {"async"})
               IN  /\ o <= Len(text) /\ text[o] = "("
                   /\ \E c \in (o + 1)..(Len(text) - 1) :
                         /\ text[c] = ")"
                         /\ \A q \in (o + 1)..(c - 1) : text[q] # ")"
                         /\ text[c + 1] = "=>"
        declared == SkipOptional(text, SkipOptional(text, 1, {"export"}),
                                 {"const", "let", "var"})
        after == IF declared > 1 /\ text[declared - 1] \in {"const", "let", "var"}
                 THEN declared ELSE 1
    IN  IF Fits(after) THEN after ELSE IF Fits(1) THEN 1 ELSE 0

\* Lines 999-1048: the entities of line i of a JavaScript or TypeScript file.
JsEntities(file_path, lines, language, i) ==
    LET text == lines[i].text
        class_name == NameAfter(text, SkipOptional(text, SkipOptional(text, 1, {"export"}),
                                                   {"abstract"}), {"class"})
        arrow_name == ArrowMatch(text)
        func_name == NameAfter(text, SkipOptional(text, SkipOptional(text, 1, {"export"}),
                                                  {"async"}), {"function"})
    IN  IF class_name > 0
        THEN <<ClassInfo(text[class_name], file_path, i, "class", language,
                         get_js_docstring(lines, i), <<>>, <<>>, get_code_snippet(lines, i))>>
        ELSE IF arrow_name > 0
        THEN <<ClassInfo(text[arrow_name], file_path, i, "arrow_function", language,
                         None, <<>>, <<>>, get_code_snippet(lines, i))>>
        ELSE IF func_name > 0
        THEN <<ClassInfo(text[func_name], file_path, i, "function", language,
                         None, <<>>, <<>>, get_code_snippet(lines, i))>>
        ELSE <<>>

\* Lines 1070-1074: the three function patterns, the first that matches: a
\* modifier and later a name before '(' with a word between, or fn or func
\* and a name.  The position of the name, 0 if none matches.
MethodPatternMatch(text) ==
    LET named == {k \in 3..(Len(text) - 1) : IsIdent(text[k]) /\ text[k + 1] = "("}
    IN  IF /\ Len(text) >= 1
           /\ text[1] \in {"public", "private", "protected", "static", "async"}
           /\ named # {}
        THEN CHOOSE k \in named : \A j \in named : k <= j
        ELSE IF NameAfter(text, 1, {"fn"}) > 0 THEN 2
        ELSE IF NameAfter(text, 1, {"func"}) > 0 THEN 2
        ELSE 0

\* Lines 1051-1089: the entities of line i of a file of the Java family.
JavaEntities(file_path, lines, language, i) ==
    LET text == lines[i].text
        class_name ==
            NameAfter(text,
                      SkipOptional(text, SkipOptional(text, SkipOptional(text, 1, {"public"}),
                                                      {"static"}), {"abstract"}),
                      CLASS_WORDS)
        func_name == MethodPatternMatch(text)
    IN  IF class_name > 0
        THEN <<ClassInfo(text[class_name], file_path, i, "class", language,
                         get_js_docstring(lines, i), <<>>, <<>>, get_code_snippet(lines, i))>>
        ELSE IF func_name > 0
        THEN <<ClassInfo(text[func_name], file_path, i, "method", language,
                         None, <<>>, <<>>, get_code_snippet(lines, i))>>
        ELSE <<>>

JAVA_FAMILY == {"java", "cpp", "csharp", "go", "rust", "kotlin", "scala"}

\* Lines 943-1089: what line i adds to the list.
EntitiesAt(file_path, lines, language, i) ==
    LET text == lines[i].text
    IN  IF \/ text = <<>>
           \/ StartsWith(text, "#") \/ StartsWith(text, "//") \/ StartsWith(text, "*")
        THEN <<>>
        ELSE IF language = "python" THEN PythonEntities(file_path, lines, i)
        ELSE IF language \in {"javascript", "typescript"}
        THEN JsEntities(file_path, lines, language, i)
        ELSE IF language \in JAVA_FAMILY THEN JavaEntities(file_path, lines, language, i)
        ELSE <<>>

RECURSIVE ParseLoop(_, _, _, _, _)
ParseLoop(classes, file_path, lines, language, i) ==
    IF i = 0 THEN classes
    ELSE ParseLoop(classes, file_path, lines, language, i - 1)
             \o EntitiesAt(file_path, lines, language, i)

\* A call that goes on with the list of the call before.
NewList_kept(previous) == previous

\* Line 941: classes = [], whatever an earlier call left.
NewList(previous) == <<>>

\* Lines 940-1091.
parse_code_file(previous, file_path, lines, language) ==
    ParseLoop(NewList(previous), file_path, lines, language, Len(lines))

(***************************************************************************)
(* Inputs of the structural extractor.                                     *)
(***************************************************************************)
MaxSourceLines == 3     \* lines of a file given to _parse_code_file

SourceLines ==
    {Line(0, <<"class", "A", ":">>),
     Line(0, <<"class", "A", "(", ")", ":">>),
     Line(0, <<"class", "A", "(", "B", ",", "C", ")", ":">>),
     Line(4, <<"def", "m", "(", ")", ":">>),
     Line(4, <<"def", "n", "(", ")", ":", "x">>),
     Line(0, <<"def", "f", "(", ")", ":">>),
     Line(8, <<"x">>),
     Line(0, <<"x">>),
     Line(0, <<>>),
     Line(4, <<"#", "x">>),
     Line(0, <<"function", "g", "(", ")">>),
     Line(0, <<"const", "h", "=", "(", ")", "=>">>),
     Line(4, <<"public", "void", "m", "(", ")">>),
     Line(4, <<"\"\"\"", "doc", "\"\"\"">>)}

Languages == {"python", "javascript", "java", "ruby"}

PathOf(language) == "src/mod." \o language

InitParse ==
    /\ px_pc = "idle"
    /\ px_input = [file_path |-> "", lines |-> <<>>, language |-> ""]
    /\ px_classes = <<>>
    /\ px_runs = <<>>
    /\ td_pc = "off"
    /\ td_commits = <<>>
    /\ td_metrics = [supplied |-> FALSE, items |-> {}]
    /\ td_result = [total_commits |-> -1, debt_commits |-> -1, feature_commits |-> -1, maintenance_commits |-> -1, debt_percentage |-> <<-1, 1>>, feature_percentage |-> <<-1, 1>>, maintenance_percentage |-> <<-1, 1>>, health_score |-> <<-1, 1>>, complexity_score |-> <<-1, 1>>, maintainability_index |-> <<-1, 1>>]
    /\ pc = "idle"
    /\ outcome = "none"
    /\ raw_log = <<>>
    /\ idx = 0
    /\ commits = <<>>
    /\ retval = <<>>
    /\ cm_pc = "off"
    /\ cm_lines = <<>>
    /\ cm_args = [loc |-> 0, complexity |-> 0, comments |-> 0]
    /\ cm_mi = <<-1, 1>>
    /\ cm_result = [loc |-> -1, sloc |-> -1, comment_lines |-> -1, functions |-> -1, classes |-> -1, complexity |-> -1, complexity_per_function |-> <<-1, 1>>, maintainability_index |-> <<-1, 1>>]
    /\ ch_pc = "off"
    /\ ch_churn = <<>>
    /\ ch_max_items = 0
    /\ ch_chart = [header |-> FALSE, rows |-> <<>>]
    /\ ch_commits = <<>>
    /\ ch_breakdown = {}
    /\ ch_authors = {}
    /\ run_pc = "off"
    /\ run_args = [no_git |-> FALSE, no_loc |-> FALSE, no_classes |-> FALSE]
    /\ run_env = [path |-> "dir", repo |-> "none", git |-> "ok", writable |-> TRUE]
    /\ run_is_git = FALSE
    /\ run_commits = <<>>
    /\ run_stats = [category_breakdown |-> {}, author_stats |-> {}]
    /\ run_events = <<>>
    /\ run_exit = -1
    /\ run_output = [built |-> FALSE, mode |-> "", duration_days |-> 0, history |-> <<>>, category_breakdown |-> {}, author_stats |-> {}, tech_debt_metrics |-> {}, file_churn |-> {}]
    /\ sc_pc = "off"
    /\ sc_files = <<>>
    /\ sc_raised = FALSE
    /\ sc_classes = <<>>
    /\ sc_metrics = [files_analyzed |-> -1, total_loc |-> -1, total_sloc |-> -1, total_comments |-> -1, total_complexity |-> -1, total_functions |-> -1, total_classes |-> -1, averages |-> {}, file_metrics |-> <<>>]
    /\ sc_graph = [nodes |-> <<>>, edges |-> <<>>, external_modules |-> <<>>]
    /\ sn_pc = "off"
    /\ sn_args = [lines |-> <<>>, start_line |-> 0, snip_format |-> ""]
    /\ sn_snippet = <<>>
    /\ fc_pc = "off"
    /\ fc_lines = <<>>
    /\ fc_stats = {}

\* _parse_code_file(file_path, lines, language) is called.
ParseCodeFile ==
    /\ px_pc = "idle"
    /\ \E n \in 0..MaxSourceLines, language \in Languages :
          \E ls \in SeqsOfLen(SourceLines, n) :
             LET r == parse_code_file(px_classes, PathOf(language), ls, language)
             IN  /\ px_input' = [file_path |-> PathOf(language), lines |-> ls,
                                 language |-> language]
                 /\ px_classes' = r
                 /\ px_runs' = <<r>>
    /\ px_pc' = "parsed"
    /\ UNCHANGED parseFrame

\* It is called again with the same arguments.
ParseAgain ==
    /\ px_pc = "parsed"
    /\ Len(px_runs) < 2
    /\ LET r == parse_code_file(px_classes, px_input.file_path, px_input.lines,
                                px_input.language)
       IN  /\ px_classes' = r
           /\ px_runs' = Append(px_runs, r)
    /\ UNCHANGED <<px_pc, px_input>>
    /\ UNCHANGED parseFrame

NextParse ==
    \/ ParseCodeFile
    \/ ParseAgain

SpecParse == InitParse /\ [][NextParse]_vars

(***************************************************************************)
(* Classes and their methods; running the extractor twice.                 *)
(***************************************************************************)
IsClassDeclaration(line) == StartsWith(line.text, "class")
IsDefDeclaration(line) == StartsWith(line.text, "def")

\* The method declarations indented under the class declared on line c: the
\* def lines after it that are indented deeper, with nothing but deeper
\* lines, blank lines and comments between.
MethodsUnder(lines, c) ==
    {d \in (c + 1)..Len(lines) :
        /\ IsDefDeclaration(lines[d])
        /\ \A k \in (c + 1)..d :
              \/ lines[k].text = <<>>
              \/ StartsWith(lines[k].text, "#")
              \/ lines[k].indent > lines[c].indent}

EntitiesOf(kind, line_number) ==
    {e \in 1..Len(px_classes) :
        /\ px_classes[e].class_type = kind
        /\ px_classes[e].line_number = line_number}

\* C15: in a Python file, a class declaration followed by method
\* declarations indented under it yields one class entity whose methods
\* list holds the name of each such method, and none of these methods is
\* also emitted as a function entity.
C15_MethodsBelongToTheirClass ==
    (px_pc = "parsed" /\ px_input.language = "python") =>
        \A c \in 1..Len(px_input.lines) :
            (IsClassDeclaration(px_input.lines[c]) /\ MethodsUnder(px_input.lines, c) # {}) =>
                /\ Cardinality(EntitiesOf("class", c)) = 1
                /\ \A d \in MethodsUnder(px_input.lines, c) :
                      /\ \A e \in EntitiesOf("class", c) :
                            \E k \in 1..Len(px_classes[e].methods) :
                                px_classes[e].methods[k] = px_input.lines[d].text[2]
                      /\ EntitiesOf("function", d) = {}

RevParse(env) ==
    IF env.git = "absent" THEN "OSError"
    ELSE IF env.repo = "none" THEN "failed"
    ELSE "ok"

\* The flag alone is not looked at.
IsGit_ignoringFlag(no_git, recognised) == recognised

\* Line 1953: is_git = not args.no_git and git.is_git_repository().
IsGit(no_git, recognised) == ~no_git /\ recognised

\* The run goes on whatever the repository check said.
GateExits_never(is_git, no_git) == FALSE

\* Line 1955: if not is_git and not args.no_git, the run exits with status 1.
GateExits(is_git, no_git) == ~is_git /\ ~no_git

\* The day count with "or 1" applied to the empty history too.
DurationDays_neverZero(cs) ==
    IF cs # <<>> /\ cs[1].date - cs[Len(cs)].date # 0
    THEN cs[1].date - cs[Len(cs)].date ELSE 1

\* Lines 2024-2030: the days from the last commit of the list to the first
\* one, 1 if that is 0; 0 without commits.
DurationDays(cs) ==
    IF cs # <<>>
    THEN (IF cs[1].date - cs[Len(cs)].date # 0 THEN cs[1].date - cs[Len(cs)].date ELSE 1)
    ELSE 0

\* Lines 2032-2049.
Output(is_git, cs, stats) ==
    [built |-> TRUE,
     mode |-> IF is_git THEN "git" ELSE "file_scan",
     duration_days |-> DurationDays(cs),
     history |-> cs,
     category_breakdown |-> stats.category_breakdown,
     author_stats |-> stats.author_stats,
     tech_debt_metrics |-> {},
     file_churn |-> {}]

(***************************************************************************)
(* Inputs of run_analysis.                                                 *)
(***************************************************************************)
MaxLog == 2     \* commits get_history returns to run_analysis

RunArgs == [no_git : BOOLEAN, no_loc : BOOLEAN, no_classes : BOOLEAN]
RunEnvs ==
    [path : {"missing", "file", "dir"}, repo : {"none", "empty", "history"},
     git : {"ok", "absent"}, writable : BOOLEAN]

RunCommits ==
    [author_name : {"ann"}, category : {"features", "bugfixes"},
     insertions : {2}, deletions : {0}, files_changed : {1}, date : {1, 3}]

\* Lines 636-726 seen from the caller: what get_history returns.  In a
\* repository without commits git log exits non-zero and the list is empty;
\* otherwise the list holds the commits that pass the filters, none if the
\* query fails.
LogResults(repo) ==
    IF repo = "history"
    THEN UNION {SeqsOfLen(RunCommits, n) : n \in 0..MaxLog}
    ELSE {<<>>}

InitRun ==
    /\ run_pc = "start"
    /\ run_args = [no_git |-> FALSE, no_loc |-> FALSE, no_classes |-> FALSE]
    /\ run_env = [path |-> "dir", repo |-> "none", git |-> "ok", writable |-> TRUE]
    /\ run_is_git = FALSE
    /\ run_commits = <<>>
    /\ run_stats = [category_breakdown |-> {}, author_stats |-> {}]
    /\ run_events = <<>>
    /\ run_exit = -1
    /\ run_output = [built |-> FALSE, mode |-> "", duration_days |-> 0, history |-> <<>>, category_breakdown |-> {}, author_stats |-> {}, tech_debt_metrics |-> {}, file_churn |-> {}]
    /\ td_pc = "off"
    /\ td_commits = <<>>
    /\ td_metrics = [supplied |-> FALSE, items |-> {}]
    /\ td_result = [total_commits |-> -1, debt_commits |-> -1, feature_commits |-> -1, maintenance_commits |-> -1, debt_percentage |-> <<-1, 1>>, feature_percentage |-> <<-1, 1>>, maintenance_percentage |-> <<-1, 1>>, health_score |-> <<-1, 1>>, complexity_score |-> <<-1, 1>>, maintainability_index |-> <<-1, 1>>]
    /\ pc = "idle"
    /\ outcome = "none"
    /\ raw_log = <<>>
    /\ idx = 0
    /\ commits = <<>>
    /\ retval = <<>>
    /\ cm_pc = "off"
    /\ cm_lines = <<>>
    /\ cm_args = [loc |-> 0, complexity |-> 0, comments |-> 0]
    /\ cm_mi = <<-1, 1>>
    /\ cm_result = [loc |-> -1, sloc |-> -1, comment_lines |-> -1, functions |-> -1, classes |-> -1, complexity |-> -1, complexity_per_function |-> <<-1, 1>>, maintainability_index |-> <<-1, 1>>]
    /\ ch_pc = "off"
    /\ ch_churn = <<>>
    /\ ch_max_items = 0
    /\ ch_chart = [header |-> FALSE, rows |-> <<>>]
    /\ ch_commits = <<>>
    /\ ch_breakdown = {}
    /\ ch_authors = {}
    /\ px_pc = "off"
    /\ px_input = [file_path |-> "", lines |-> <<>>, language |-> ""]
    /\ px_classes = <<>>
    /\ px_runs = <<>>
    /\ sc_pc = "off"
    /\ sc_files = <<>>
    /\ sc_raised = FALSE
    /\ sc_classes = <<>>
    /\ sc_metrics = [files_analyzed |-> -1, total_loc |-> -1, total_sloc |-> -1, total_comments |-> -1, total_complexity |-> -1, total_functions |-> -1, total_classes |-> -1, averages |-> {}, file_metrics |-> <<>>]
    /\ sc_graph = [nodes |-> <<>>, edges |-> <<>>, external_modules |-> <<>>]
    /\ sn_pc = "off"
    /\ sn_args = [lines |-> <<>>, start_line |-> 0, snip_format |-> ""]
    /\ sn_snippet = <<>>
    /\ fc_pc = "off"
    /\ fc_lines = <<>>
    /\ fc_stats = {}

\* Lines 1930-1936: the arguments are parsed; the run starts in some environment.
ParseArguments ==
    /\ run_pc = "start"
    /\ \E args \in RunArgs, env \in RunEnvs :
          /\ run_args' = args
          /\ run_env' = env
    /\ run_pc' = "parsed"
    /\ UNCHANGED <<run_is_git, run_commits, run_stats, run_events, run_exit, run_output>>
    /\ UNCHANGED runFrame

\* Lines 1938-1944: a path that does not exist or is no directory ends the run.
CheckPath ==
    /\ run_pc = "parsed"
    /\ IF run_env.path # "dir"
       THEN run_pc' = "exited" /\ run_exit' = 1
       ELSE run_pc' = "checked" /\ UNCHANGED run_exit
    /\ UNCHANGED <<run_args, run_env, run_is_git, run_commits, run_stats, run_events, run_output>>
    /\ UNCHANGED runFrame

\* Lines 1950-1958: the repository check, not made with --no-git.  An OSError
\* of git rev-parse is caught nowhere and ends the process with status 1.
CheckRepository ==
    /\ run_pc = "checked"
    /\ IF run_args.no_git
       THEN /\ run_is_git' = IsGit(run_args.no_git, RevParse(run_env) = "ok")
            /\ run_pc' = "gated"
            /\ UNCHANGED <<run_events, run_exit>>
       ELSE /\ run_events' = Append(run_events, "rev_parse")
            /\ IF RevParse(run_env) = "OSError"
               THEN run_pc' = "exited" /\ run_exit' = 1 /\ UNCHANGED run_is_git
               ELSE LET is_git == IsGit(run_args.no_git, RevParse(run_env) = "ok")
                    IN  /\ run_is_git' = is_git
                        /\ IF GateExits(is_git, run_args.no_git)
                           THEN run_pc' = "exited" /\ run_exit' = 1
                           ELSE run_pc' = "gated" /\ UNCHANGED run_exit
    /\ UNCHANGED <<run_args, run_env, run_commits, run_stats, run_output>>
    /\ UNCHANGED runFrame

\* Lines 1970-1984: the history is asked for in git mode only, and the two
\* statistics are taken of a history that is not empty.
QueryHistory ==
    /\ run_pc = "gated"
    /\ IF run_is_git
       THEN /\ run_events' = Append(run_events, "history_query")
            /\ \E cs \in LogResults(run_env.repo) :
                  /\ run_commits' = cs
                  /\ run_stats' =
                        IF cs # <<>>
                        THEN [category_breakdown |-> get_category_breakdown(cs),
                              author_stats |-> get_author_stats(cs)]
                        ELSE run_stats
       ELSE UNCHANGED <<run_events, run_commits, run_stats>>
    /\ run_pc' = "history"
    /\ UNCHANGED <<run_args, run_env, run_is_git, run_exit, run_output>>
    /\ UNCHANGED runFrame

\* Lines 1986-2019: the files are listed, counted unless --no-loc and searched
\* for entities unless --no-classes.
ListAndScan ==
    /\ run_pc = "history"
    /\ run_events' = run_events \o <<"file_listing">>
                        \o (IF run_args.no_loc THEN <<>> ELSE <<"scan">>)
                        \o (IF run_args.no_classes THEN <<>> ELSE <<"extract">>)
    /\ run_pc' = "scanned"
    /\ UNCHANGED <<run_args, run_env, run_is_git, run_commits, run_stats, run_exit, run_output>>
    /\ UNCHANGED runFrame

\* Lines 2021-2129: the report is built and written; the process then ends
\* with status 0, or with status 1 if the file cannot be written (IOError).
WriteReport ==
    /\ run_pc = "scanned"
    /\ run_output' = Output(run_is_git, run_commits, run_stats)
    /\ IF run_env.writable
       THEN run_events' = Append(run_events, "report_write") /\ run_exit' = 0
       ELSE UNCHANGED run_events /\ run_exit' = 1
    /\ run_pc' = "exited"
    /\ UNCHANGED <<run_args, run_env, run_is_git, run_commits, run_stats>>
    /\ UNCHANGED runFrame

NextRun ==
    \/ ParseArguments
    \/ CheckPath
    \/ CheckRepository
    \/ QueryHistory
    \/ ListAndScan
    \/ WriteReport

SpecRun == InitRun /\ [][NextRun]_vars

\* run_analysis is sequential code whose calls of git end by themselves or by
\* their timeouts: a run that can take a step takes it.
SpecRunLive == InitRun /\ [][NextRun]_vars /\ WF_vars(NextRun)

(***************************************************************************)
(* The ways a run ends.                                                    *)
(***************************************************************************)
Did(event) == \E k \in 1..Len(run_events) : run_events[k] = event

AnalysisEvents == {"history_query", "file_listing", "scan", "extract", "report_write"}

Started == run_pc \notin {"start", "off"}

\* The target is missing, is no directory, or is no repository without --no-git.
BadTarget ==
    /\ Started
    /\ \/ run_env.path # "dir"
       \/ ~run_args.no_git /\ run_env.repo = "none"

\* C17: when the target path does not exist, is not a directory, or is not a
\* git repository while --no-git was not given, the run does no commit-history
\* query, file listing, entity extraction or report write, never has status 0,
\* and ends with a non-zero exit status.
C17_BadTargetAborts ==
    /\ [](BadTarget => /\ \A e \in AnalysisEvents : ~Did(e)
                       /\ run_exit # 0
                       /\ run_pc \in {"parsed", "checked", "exited"})
    /\ (BadTarget ~> (run_pc = "exited" /\ run_exit = 1))

\* A directory that is no repository, without --no-git: the run ended with
\* status 1 after the repository check.
C17_Witness ==
    /\ run_pc = "exited"
    /\ run_env.path = "dir" /\ run_env.repo = "none" /\ run_env.git = "ok"
    /\ ~run_args.no_git
    /\ run_events = <<"rev_parse">>
    /\ run_exit = 1

EmptyReport ==
    /\ run_output.built
    /\ run_output.history = <<>>
    /\ run_output.category_breakdown = {}
    /\ run_output.author_stats = {}
    /\ run_output.duration_days = 0

\* A run in git mode on a repository that has no commits.
EmptyRepositoryRun ==
    /\ Started
    /\ run_env.path = "dir" /\ run_env.repo = "empty" /\ run_env.git = "ok"
    /\ ~run_args.no_git

NoGitRun == Started /\ run_args.no_git /\ run_env.path = "dir"

ImportInfo(module, alias, line_number, import_type, is_test) ==
    [module |-> module, alias |-> alias, line_number |-> line_number,
     import_type |-> import_type, is_test |-> is_test]

\* Lines 93-99: TEST_PATTERNS on a path, which is the sequence of its parts.
\* The file names of the inputs that the patterns on the name find
\* (test_.*\.py$ here), and those that end as the patterns on a directory
\* require (.py here; the match is case-sensitive).
TEST_NAMES == {"test_a.py"}
TESTED_SUFFIX_NAMES == {"a.py", "c.py", "d.py", "e.py", "gone.py", "test_a.py"}
TEST_DIRECTORIES == {"tests", "__tests__"}

\* Line 497: any(re.search(p, file_path) for p in TEST_PATTERNS).
IsTestPath(file_path) ==
    LET n == Len(file_path)
    IN  n >= 1 /\ \/ file_path[n] \in TEST_NAMES
                  \/ /\ file_path[n] \in TESTED_SUFFIX_NAMES
                     /\ \E k \in 1..(n - 1) : file_path[k] \in TEST_DIRECTORIES

\* Lines 420-425 and 487-502: the imports the four Python patterns find in a
\* line, pattern by pattern.  The patterns are anchored at the start of the
\* line as it is, so that an indented import matches none.
PythonImports(line, i, is_test) ==
    LET text == line.text
        n == Len(text)
        plain == n >= 2 /\ text[1] = "import" /\ IsIdent(text[2])
        from == n >= 3 /\ text[1] = "from" /\ IsIdent(text[2]) /\ text[3] = "import"
        plain_as == plain /\ n >= 4 /\ text[3] = "as" /\ IsIdent(text[4])
        from_as == from /\ n >= 6 /\ \E k \in 5..(n - 1) : text[k] = "as" /\ IsIdent(text[k + 1])
    IN  IF line.indent # 0 THEN <<>>
        ELSE (IF plain THEN <<ImportInfo(text[2], None, i, "import", is_test)>> ELSE <<>>)
          \o (IF from THEN <<ImportInfo(text[2], None, i, "from", is_test)>> ELSE <<>>)
          \o (IF plain_as THEN <<ImportInfo(text[2], <<text[4]>>, i, "import", is_test)>> ELSE <<>>)
          \o (IF from_as
              THEN <<ImportInfo(text[2],
                                <<text[(CHOOSE k \in 5..(n - 1) :
                                          /\ text[k] = "as" /\ IsIdent(text[k + 1])
                                          /\ \A j \in (k + 1)..(n - 1) :
                                                ~(text[j] = "as" /\ IsIdent(text[j + 1]))) + 1]>>,
                                i, "from", is_test)>>
              ELSE <<>>)

\* Lines 474-507.  The patterns of the other languages need quotes or
\* semicolons, or belong to languages that are not among the inputs: only
\* the Python patterns find imports here.
RECURSIVE ImportsLoop(_, _, _, _)
ImportsLoop(file_path, lines, language, i) ==
    IF i = 0 THEN <<>>
    ELSE ImportsLoop(file_path, lines, language, i - 1)
           \o (IF \/ lines[i].text = <<>>
                  \/ StartsWith(lines[i].text, "#") \/ StartsWith(lines[i].text, "//")
                  \/ language # "python"
               THEN <<>>
               ELSE PythonImports(lines[i], i, IsTestPath(file_path)))

extract_imports(file_path, lines, language) ==
    ImportsLoop(file_path, lines, language, Len(lines))

\* Lines 534-540: the edges of the imports of a file.
EdgesOf(file_path, imports) ==
    [k \in 1..Len(imports) |->
        [from |-> file_path, to |-> imports[k].module, type |-> imports[k].import_type]]

\* The targets of all edges, repeated ones too.
FirstSeen_all(edges, i) == [k \in 1..i |-> edges[k].to]

\* Lines 535 and 545: the keys of modules in the order they were first set.
RECURSIVE FirstSeen(_, _)
FirstSeen(edges, i) ==
    IF i = 0 THEN <<>>
    ELSE LET seen == FirstSeen(edges, i - 1)
         IN  IF \E k \in 1..Len(seen) : seen[k] = edges[i].to
             THEN seen ELSE Append(seen, edges[i].to)

\* Lines 509-546: DependencyAnalyzer.build_dependency_graph(files) on
\* (file_path, lines, language) triples; a path is the sequence of its parts
\* and the label of a node is the last of them.
RECURSIVE GraphLoop(_, _)
GraphLoop(file_data, i) ==
    IF i = 0 THEN [nodes |-> <<>>, edges |-> <<>>]
    ELSE LET graph == GraphLoop(file_data, i - 1)
             f == file_data[i]
             imports == extract_imports(f.file_path, f.lines, f.language)
         IN  [nodes |-> Append(graph.nodes,
                               [id |-> f.file_path,
                                label |-> f.file_path[Len(f.file_path)],
                                language |-> f.language,
                                import_count |-> Len(imports)]),
              edges |-> graph.edges \o EdgesOf(f.file_path, imports)]

build_dependency_graph(file_data) ==
    LET graph == GraphLoop(file_data, Len(file_data))
    IN  [nodes |-> graph.nodes,
         edges |-> graph.edges,
         external_modules |-> FirstSeen(graph.edges, Len(graph.edges))]

(***************************************************************************)
(* The per-file loops of CodebaseAnalyzer: extract_classes,                *)
(* extract_complexity_metrics and build_dependency_graph.  A file of the   *)
(* list is a record of its path, its suffix, its state ("ok", "missing":   *)
(* no regular file; otherwise the exception that reading it raises) and    *)
(* its lines.                                                              *)
(***************************************************************************)
\* Lines 121-170: the entries of CODE_EXTENSIONS for the suffixes of the inputs.
CODE_EXTENSIONS == [e \in {".py", ".md"} |-> IF e = ".py" THEN "python" ELSE "markdown"]

\* str.lower() on the suffixes of the inputs.
Lower(ext) == IF ext = ".PY" THEN ".py" ELSE ext

\* Lines 919-925: the file is a regular file of a known language.
IsCodeFile(f) == f.state # "missing" /\ Lower(f.ext) \in DOMAIN CODE_EXTENSIONS
LanguageOf(f) == CODE_EXTENSIONS[Lower(f.ext)]

\* A handler that catches nothing.
IsCaught_nothing(exception) == FALSE

\* Lines 934, 1273, 1304: except (IOError, Exception) catches every exception
\* that reading or parsing a file raises.
IsCaught(exception) == exception \in {"PermissionError", "IsADirectoryError", "MemoryError"}

\* What the loop does with a file it does not skip: "read" it, "omit" it (a
\* caught exception), or "raise".
Attempt(f) ==
    IF f.state = "ok" THEN "read"
    ELSE IF IsCaught(f.state) THEN "omit"
    ELSE "raise"

\* Lines 914-938.
RECURSIVE ClassesLoop(_, _)
ClassesLoop(files, i) ==
    IF i = 0 THEN [raised |-> FALSE, classes |-> <<>>]
    ELSE LET before == ClassesLoop(files, i - 1)
             f == files[i]
         IN  IF before.raised \/ ~IsCodeFile(f) \/ Attempt(f) = "omit" THEN before
             ELSE IF Attempt(f) = "raise" THEN [before EXCEPT !.raised = TRUE]
             ELSE [before EXCEPT !.classes =
                      @ \o parse_code_file(<<>>, f.path, f.lines, LanguageOf(f))]

extract_classes(files) == ClassesLoop(files, Len(files))

\* Lines 1248-1275: the per-file dictionaries, each with its file_path.
RECURSIVE FileMetricsLoop(_, _)
FileMetricsLoop(files, i) ==
    IF i = 0 THEN [raised |-> FALSE, file_metrics |-> <<>>]
    ELSE LET before == FileMetricsLoop(files, i - 1)
             f == files[i]
         IN  IF before.raised \/ ~IsCodeFile(f) \/ Attempt(f) = "omit" THEN before
             ELSE IF Attempt(f) = "raise" THEN [before EXCEPT !.raised = TRUE]
             ELSE [before EXCEPT !.file_metrics =
                      Append(@, [file_path |-> f.path,
                                 metrics |-> calculate_code_metrics(f.lines)])]

RECURSIVE Total(_, _, _)
Total(file_metrics, key, i) ==
    IF i = 0 THEN 0 ELSE Total(file_metrics, key, i - 1) + file_metrics[i].metrics[key]

\* Lines 1231-1282: the totals, the averages (AggregateMetrics) and the list.
extract_complexity_metrics(files) ==
    LET loop == FileMetricsLoop(files, Len(files))
        fm == loop.file_metrics
        n == Len(fm)
    IN  [raised |-> loop.raised,
         metrics |-> [files_analyzed |-> n,
                      total_loc |-> Total(fm, "loc", n),
                      total_sloc |-> Total(fm, "sloc", n),
                      total_comments |-> Total(fm, "comment_lines", n),
                      total_complexity |-> Total(fm, "complexity", n),
                      total_functions |-> Total(fm, "functions", n),
                      total_classes |-> Total(fm, "classes", n),
                      averages |-> AggregateMetrics([k \in 1..n |-> fm[k].metrics]).items,
                      file_metrics |-> fm]]

\* Lines 1289-1305.
RECURSIVE FileDataLoop(_, _)
FileDataLoop(files, i) ==
    IF i = 0 THEN [raised |-> FALSE, file_data |-> <<>>]
    ELSE LET before == FileDataLoop(files, i - 1)
             f == files[i]
         IN  IF before.raised \/ ~IsCodeFile(f) \/ Attempt(f) = "omit" THEN before
             ELSE IF Attempt(f) = "raise" THEN [before EXCEPT !.raised = TRUE]
             ELSE [before EXCEPT !.file_data =
                      Append(@, [file_path |-> f.path, lines |-> f.lines,
                                 language |-> LanguageOf(f)])]

\* Lines 1284-1307: CodebaseAnalyzer.build_dependency_graph(files).
graph_of_files(files) ==
    LET loop == FileDataLoop(files, Len(files))
    IN  [raised |-> loop.raised, graph |-> build_dependency_graph(loop.file_data)]

(***************************************************************************)
(* Inputs of the per-file loops.                                           *)
(***************************************************************************)
MaxScanFiles == 3   \* files of the list

ModuleA ==
    <<Line(0, <<"import", "os", "as", "o">>),
      Line(0, <<"class", "A", ":">>),
      Line(4, <<"def", "m", "(", ")", ":">>),
      Line(8, <<"if", "x", ":">>)>>
ModuleB ==
    <<Line(0, <<"#", "x">>),
      Line(0, <<"from", "os", "import", "x">>),
      Line(0, <<"def", "f", "(", ")", ":">>)>>
ModuleC ==
    <<Line(0, <<"from", "sys", "import", "y", "as", "z">>),
      Line(4, <<"import", "json">>),
      Line(0, <<"import", "re">>)>>
Notes == <<Line(0, <<"x">>), Line(0, <<"class", "A", ":">>)>>

File(path, ext, state, lines) == [path |-> path, ext |-> ext, state |-> state, lines |-> lines]

SampleFiles ==
    {File(<<"a.py">>, ".py", "ok", ModuleA),
     File(<<"pkg", "b.PY">>, ".PY", "ok", ModuleB),
     File(<<"c.py">>, ".py", "PermissionError", ModuleA),
     File(<<"d.py">>, ".py", "MemoryError", ModuleB),
     File(<<"lib", "e.py">>, ".py", "ok", ModuleC),
     File(<<"test_a.py">>, ".py", "ok", ModuleA),
     File(<<"tests", "a.py">>, ".py", "ok", ModuleB),
     File(<<"notes.md">>, ".md", "ok", Notes),
     File(<<"notes.txt">>, ".txt", "ok", Notes),
     File(<<"gone.py">>, ".py", "missing", <<>>)}

InitScan ==
    /\ sc_pc = "idle"
    /\ sc_files = <<>>
    /\ sc_raised = FALSE
    /\ sc_classes = <<>>
    /\ sc_metrics = [files_analyzed |-> -1, total_loc |-> -1, total_sloc |-> -1, total_comments |-> -1, total_complexity |-> -1, total_functions |-> -1, total_classes |-> -1, averages |-> {}, file_metrics |-> <<>>]
    /\ sc_graph = [nodes |-> <<>>, edges |-> <<>>, external_modules |-> <<>>]
    /\ td_pc = "off"
    /\ td_commits = <<>>
    /\ td_metrics = [supplied |-> FALSE, items |-> {}]
    /\ td_result = [total_commits |-> -1, debt_commits |-> -1, feature_commits |-> -1, maintenance_commits |-> -1, debt_percentage |-> <<-1, 1>>, feature_percentage |-> <<-1, 1>>, maintenance_percentage |-> <<-1, 1>>, health_score |-> <<-1, 1>>, complexity_score |-> <<-1, 1>>, maintainability_index |-> <<-1, 1>>]
    /\ pc = "idle"
    /\ outcome = "none"
    /\ raw_log = <<>>
    /\ idx = 0
    /\ commits = <<>>
    /\ retval = <<>>
    /\ cm_pc = "off"
    /\ cm_lines = <<>>
    /\ cm_args = [loc |-> 0, complexity |-> 0, comments |-> 0]
    /\ cm_mi = <<-1, 1>>
    /\ cm_result = [loc |-> -1, sloc |-> -1, comment_lines |-> -1, functions |-> -1, classes |-> -1, complexity |-> -1, complexity_per_function |-> <<-1, 1>>, maintainability_index |-> <<-1, 1>>]
    /\ ch_pc = "off"
    /\ ch_churn = <<>>
    /\ ch_max_items = 0
    /\ ch_chart = [header |-> FALSE, rows |-> <<>>]
    /\ ch_commits = <<>>
    /\ ch_breakdown = {}
    /\ ch_authors = {}
    /\ px_pc = "off"
    /\ px_input = [file_path |-> "", lines |-> <<>>, language |-> ""]
    /\ px_classes = <<>>
    /\ px_runs = <<>>
    /\ run_pc = "off"
    /\ run_args = [no_git |-> FALSE, no_loc |-> FALSE, no_classes |-> FALSE]
    /\ run_env = [path |-> "dir", repo |-> "none", git |-> "ok", writable |-> TRUE]
    /\ run_is_git = FALSE
    /\ run_commits = <<>>
    /\ run_stats = [category_breakdown |-> {}, author_stats |-> {}]
    /\ run_events = <<>>
    /\ run_exit = -1
    /\ run_output = [built |-> FALSE, mode |-> "", duration_days |-> 0, history |-> <<>>, category_breakdown |-> {}, author_stats |-> {}, tech_debt_metrics |-> {}, file_churn |-> {}]
    /\ sn_pc = "off"
    /\ sn_args = [lines |-> <<>>, start_line |-> 0, snip_format |-> ""]
    /\ sn_snippet = <<>>
    /\ fc_pc = "off"
    /\ fc_lines = <<>>
    /\ fc_stats = {}

\* extract_classes(files) is called.
ExtractClasses ==
    /\ sc_pc = "idle"
    /\ \E n \in 0..MaxScanFiles : \E files \in SeqsOfLen(SampleFiles, n) :
          /\ sc_files' = files
          /\ sc_raised' = extract_classes(files).raised
          /\ sc_classes' = extract_classes(files).classes
    /\ sc_pc' = "classes"
    /\ UNCHANGED <<sc_metrics, sc_graph>>
    /\ UNCHANGED scanFrame

\* extract_complexity_metrics(files) is called.
ExtractFileMetrics ==
    /\ sc_pc = "idle"
    /\ \E n \in 0..MaxScanFiles : \E files \in SeqsOfLen(SampleFiles, n) :
          /\ sc_files' = files
          /\ sc_raised' = extract_complexity_metrics(files).raised
          /\ sc_metrics' = extract_complexity_metrics(files).metrics
    /\ sc_pc' = "metrics"
    /\ UNCHANGED <<sc_classes, sc_graph>>
    /\ UNCHANGED scanFrame

\* build_dependency_graph(files) is called.
BuildDependencyGraph ==
    /\ sc_pc = "idle"
    /\ \E n \in 0..MaxScanFiles : \E files \in SeqsOfLen(SampleFiles, n) :
          /\ sc_files' = files
          /\ sc_raised' = graph_of_files(files).raised
          /\ sc_graph' = graph_of_files(files).graph
    /\ sc_pc' = "graph"
    /\ UNCHANGED <<sc_classes, sc_metrics>>
    /\ UNCHANGED scanFrame

NextScan ==
    \/ ExtractClasses
    \/ ExtractFileMetrics
    \/ BuildDependencyGraph

SpecScan == InitScan /\ [][NextScan]_vars

(***************************************************************************)
(* Files that cannot be read.                                              *)
(***************************************************************************)
Fails(f) == f.state \notin {"ok", "missing"}

\* The list without the files whose read fails.
WithoutFailing(files) == SelectSeq(files, LAMBDA f : ~Fails(f))

\* C20: extract_classes, extract_complexity_metrics and build_dependency_graph
\* do not raise on a list with files whose read fails, and return what they
\* return for the list without these files: a failing file is omitted and
\* every other file is processed.
C20_FailingFilesAreSkipped ==
    /\ sc_pc # "off" => ~sc_raised
    /\ sc_pc = "classes" => sc_classes = extract_classes(WithoutFailing(sc_files)).classes
    /\ sc_pc = "metrics" =>
          sc_metrics = extract_complexity_metrics(WithoutFailing(sc_files)).metrics
    /\ sc_pc = "graph" => sc_graph = graph_of_files(WithoutFailing(sc_files)).graph

\* An unreadable file between two readable ones: both were analyzed.
C20_Witness ==
    /\ sc_pc = "metrics"
    /\ Len(sc_files) = 3
    /\ sc_files[1].state = "ok" /\ Fails(sc_files[2]) /\ sc_files[3].state = "ok"
    /\ sc_files[1].ext = ".py" /\ sc_files[3].ext = ".PY"
    /\ sc_metrics.files_analyzed = 2
    /\ sc_metrics.file_metrics[2].file_path = sc_files[3].path

(***************************************************************************)
(* The dependency graph against the triples it was built from.             *)
(***************************************************************************)
\* The (file_path, lines, language) triples of the files of the list.
Triples == FileDataLoop(sc_files, Len(sc_files)).file_data

ImportsOf(triple) == extract_imports(triple.file_path, triple.lines, triple.language)

RECURSIVE SumImportCounts(_, _)
SumImportCounts(nodes, i) ==
    IF i = 0 THEN 0 ELSE SumImportCounts(nodes, i - 1) + nodes[i].import_count

EdgesLeaving(graph, id) == {k \in 1..Len(graph.edges) : graph.edges[k].from = id}

C22_ResultCarriesDebtAndChurn ==
    (run_output.built /\ run_output.history # <<>>) =>
        /\ run_output.tech_debt_metrics # {}
        /\ run_output.file_churn # {}

(***************************************************************************)
(* The test-file flag of the entities.                                     *)
(***************************************************************************)
\* C23: every entity extract_classes returns has is_test true exactly when
\* its file path matches one of the test-file patterns.
C23_TestFlagFromPath ==
    sc_pc = "classes" =>
        \A k \in 1..Len(sc_classes) :
            sc_classes[k].is_test = IsTestPath(sc_classes[k].file_path)

(***************************************************************************)
(* Doc comments of Python declarations.                                    *)
(***************************************************************************)
\* A single-line triple-quoted string.
IsDocstringLine(line) ==
    /\ Len(line.text) >= 2
    /\ line.text[1] = "\"\"\""
    /\ line.text[Len(line.text)] = "\"\"\""

\* C24: the entity of a Python class or function declaration whose next line
\* is a single-line triple-quoted string has the text of that string as its
\* doc comment.
C24_DocstringFromNextLine ==
    (px_pc = "parsed" /\ px_input.language = "python") =>
        \A k \in 1..Len(px_classes) :
            LET i == px_classes[k].line_number
            IN  (i < Len(px_input.lines) /\ IsDocstringLine(px_input.lines[i + 1])) =>
                    px_classes[k].docstring =
                        SubSeq(px_input.lines[i + 1].text, 2,
                               Len(px_input.lines[i + 1].text) - 1)

(***************************************************************************)
(* Complexity against the text of the file.                                *)
(***************************************************************************)
CommentTokens == {"#", "//", "/*", "*/", "<!--", "-->"}

HasNone(lines, toks) ==
    \A k \in 1..Len(lines) : \A j \in 1..Len(lines[k].text) : lines[k].text[j] \notin toks

\* The keywords and operators of a line, however they are spaced: the listed
\* words in any case, each && and ||, and each '?' with a ':' behind it.
OccurrencesIn(text) ==
    Cardinality({k \in 1..Len(text) :
        \/ Lowered(text[k]) \in COMPLEXITY_PATTERNS
        \/ text[k] \in {"&&", "||"}
        \/ text[k] = "?" /\ \E j \in (k + 1)..Len(text) : text[j] = ":"})

RECURSIVE SumOccurrences(_, _)
SumOccurrences(lines, i) ==
    IF i = 0 THEN 0 ELSE SumOccurrences(lines, i - 1) + OccurrencesIn(lines[i].text)

\* C26: the complexity of a text without comments is 1 plus the number of
\* occurrences of the listed keywords and operators in it, in any case and
\* also when && , || and ?: stand between spaces; 1 if it holds none.
C26_OnePlusOccurrences ==
    (cm_pc = "metrics" /\ HasNone(cm_lines, CommentTokens)) =>
        cm_result.complexity = 1 + SumOccurrences(cm_lines, Len(cm_lines))

\* Every line with what follows '#' or '//' on it removed.
WithoutLineComments(lines) ==
    [k \in 1..Len(lines) |-> CutAt(CutAt(lines[k].text, "#"), "//")]

\* C27: what stands in a comment adds nothing to the complexity of a file:
\* the text after '#' or '//' is removed on every line, and the text between
\* the block comment marks is removed, before the keywords are counted.
C27_CommentsNeverCount ==
    cm_pc = "metrics" =>
        /\ HasNone(cm_lines, {"/*", "*/", "<!--", "-->"}) =>
              cm_result.complexity =
                  calculate_cyclomatic_complexity(WithoutLineComments(cm_lines))
        /\ HasNone(cm_lines, {"#", "//"}) =>
              cm_result.complexity =
                  calculate_cyclomatic_complexity(
                      LinesOf(StripBlocks(StripBlocks(
                          Joined([k \in 1..Len(cm_lines) |-> cm_lines[k].text], Len(cm_lines)),
                          "/*", "*/"), "<!--", "-->")))

\* C28: the index of a file with code lines is the formula's value for the
\* size max(1, total lines - comment lines), the comment lines being taken
\* off the total once.
C28_CommentsSubtractedOnce ==
    (cm_pc = "metrics" /\ cm_result.sloc > 0) =>
        cm_mi = Frac(FormulaThousandths([loc |-> cm_result.loc,
                                         complexity |-> cm_result.complexity,
                                         comments |-> cm_result.comment_lines]) * 100,
                     171000)

(***************************************************************************)
(* _get_code_snippet on its own: declarations with short and long bodies.  *)
(***************************************************************************)
MaxTailLines == 2   \* lines of the file behind the body of the declaration

\* k indented lines.
Body(k) == [j \in 1..k |-> Line(4, <<"x">>)]

SampleBodies == {0, 1, 18, 19, 20, 48, 49, 50}

TailLines ==
    {Line(0, <<>>),
     Line(0, <<"x">>),
     Line(0, <<"#", "x">>),
     Line(0, <<"@", "d">>),
     Line(2, <<"y">>),
     Line(4, <<"y">>)}

InitSnippet ==
    /\ sn_pc = "idle"
    /\ sn_args = [lines |-> <<>>, start_line |-> 0, snip_format |-> ""]
    /\ sn_snippet = <<>>
    /\ td_pc = "off"
    /\ td_commits = <<>>
    /\ td_metrics = [supplied |-> FALSE, items |-> {}]
    /\ td_result = [total_commits |-> -1, debt_commits |-> -1, feature_commits |-> -1, maintenance_commits |-> -1, debt_percentage |-> <<-1, 1>>, feature_percentage |-> <<-1, 1>>, maintenance_percentage |-> <<-1, 1>>, health_score |-> <<-1, 1>>, complexity_score |-> <<-1, 1>>, maintainability_index |-> <<-1, 1>>]
    /\ pc = "idle"
    /\ outcome = "none"
    /\ raw_log = <<>>
    /\ idx = 0
    /\ commits = <<>>
    /\ retval = <<>>
    /\ cm_pc = "off"
    /\ cm_lines = <<>>
    /\ cm_args = [loc |-> 0, complexity |-> 0, comments |-> 0]
    /\ cm_mi = <<-1, 1>>
    /\ cm_result = [loc |-> -1, sloc |-> -1, comment_lines |-> -1, functions |-> -1, classes |-> -1, complexity |-> -1, complexity_per_function |-> <<-1, 1>>, maintainability_index |-> <<-1, 1>>]
    /\ ch_pc = "off"
    /\ ch_churn = <<>>
    /\ ch_max_items = 0
    /\ ch_chart = [header |-> FALSE, rows |-> <<>>]
    /\ ch_commits = <<>>
    /\ ch_breakdown = {}
    /\ ch_authors = {}
    /\ px_pc = "off"
    /\ px_input = [file_path |-> "", lines |-> <<>>, language |-> ""]
    /\ px_classes = <<>>
    /\ px_runs = <<>>
    /\ run_pc = "off"
    /\ run_args = [no_git |-> FALSE, no_loc |-> FALSE, no_classes |-> FALSE]
    /\ run_env = [path |-> "dir", repo |-> "none", git |-> "ok", writable |-> TRUE]
    /\ run_is_git = FALSE
    /\ run_commits = <<>>
    /\ run_stats = [category_breakdown |-> {}, author_stats |-> {}]
    /\ run_events = <<>>
    /\ run_exit = -1
    /\ run_output = [built |-> FALSE, mode |-> "", duration_days |-> 0, history |-> <<>>, category_breakdown |-> {}, author_stats |-> {}, tech_debt_metrics |-> {}, file_churn |-> {}]
    /\ sc_pc = "off"
    /\ sc_files = <<>>
    /\ sc_raised = FALSE
    /\ sc_classes = <<>>
    /\ sc_metrics = [files_analyzed |-> -1, total_loc |-> -1, total_sloc |-> -1, total_comments |-> -1, total_complexity |-> -1, total_functions |-> -1, total_classes |-> -1, averages |-> {}, file_metrics |-> <<>>]
    /\ sc_graph = [nodes |-> <<>>, edges |-> <<>>, external_modules |-> <<>>]
    /\ fc_pc = "off"
    /\ fc_lines = <<>>
    /\ fc_stats = {}

\* _get_code_snippet(lines, start_line, snip_format) is called for the
\* declaration of a file, or with a line number behind the end of the file.
GetSnippet ==
    /\ sn_pc = "idle"
    /\ \E before \in 0..1, k \in SampleBodies, n \in 0..MaxTailLines, past \in BOOLEAN,
          snip_format \in {"short", "long"} :
          \E tail \in SeqsOfLen(TailLines, n) :
             LET lines == [j \in 1..before |-> Line(0, <<"x">>)]
                              \o <<Line(0, <<"def", "f", "(", ")", ":">>)>>
                              \o Body(k) \o tail
                 start_line == IF past THEN Len(lines) + 1 ELSE before + 1
             IN  /\ sn_args' = [lines |-> lines, start_line |-> start_line,
                                snip_format |-> snip_format]
                 /\ sn_snippet' = GetCodeSnippet(lines, start_line, snip_format)
    /\ sn_pc' = "done"
    /\ UNCHANGED snippetFrame

NextSnippet == GetSnippet

SpecSnippet == InitSnippet /\ [][NextSnippet]_vars

(***************************************************************************)
(* Where a snippet ends.                                                   *)
(***************************************************************************)
\* A line that is blank, or that is not indented (by four spaces) and is
\* neither a comment nor a decorator.
Terminates(line) ==
    \/ line.text = <<>>
    \/ line.indent < 4 /\ line.text[1] \notin {"#", "//", "*", "@"}

\* The last line of the window of a format.
WindowEnd(args) ==
    Min(args.start_line + (IF args.snip_format = "long" THEN 50 ELSE 20) - 1,
        Len(args.lines))

C29_TopLevelDefIsFunction ==
    (px_pc = "parsed" /\ px_input.language = "python") =>
        \A i \in 1..Len(px_input.lines) :
            (IsDefDeclaration(px_input.lines[i]) /\ px_input.lines[i].indent = 0) =>
                Cardinality(EntitiesOf("function", i)) = 1

(***************************************************************************)
(* GitIntelligence.get_file_churn.  A line of git's output is the sequence *)
(* of its tab-separated fields after strip(); <<"">> is a blank line.      *)
(***************************************************************************)
\* Lines 785-790: a first entry.
NoChurn == [changes |-> 0, insertions |-> 0, deletions |-> 0, commits |-> 0]

\* The changes of a stat line are its insertions alone.
Accumulate_insertionsOnly(file_stats, file, insertions, deletions) ==
    LET old == DictGet(file_stats, file, NoChurn)
    IN  DictPut(file_stats, file,
                [changes |-> old.changes + insertions,
                 insertions |-> old.insertions + insertions,
                 deletions |-> old.deletions + deletions,
                 commits |-> old.commits + 1])

\* Lines 782-794: a stat line is added to the entry of the current file.
Accumulate(file_stats, file, insertions, deletions) ==
    LET old == DictGet(file_stats, file, NoChurn)
    IN  DictPut(file_stats, file,
                [changes |-> old.changes + (insertions + deletions),
                 insertions |-> old.insertions + insertions,
                 deletions |-> old.deletions + deletions,
                 commits |-> old.commits + 1])

\* Lines 769-799: one line.  current_file is <<>> for None and <<name>> for
\* a name; a ValueError of either int() leaves the entry as it was.
ChurnStep(state, line) ==
    IF line = <<"">> THEN state
    ELSE IF Len(line) >= 2
    THEN IF /\ state.current_file # <<>>
            /\ ~CountRaises(line[1])
            /\ ~CountRaises(line[2])
         THEN [state EXCEPT !.file_stats =
                  Accumulate(@, state.current_file[1], CountOf(line[1]), CountOf(line[2]))]
         ELSE state
    ELSE [state EXCEPT !.current_file = <<line[1]>>]

RECURSIVE ChurnLoop(_, _)
ChurnLoop(lines, i) ==
    IF i = 0 THEN [current_file |-> <<>>, file_stats |-> {}]
    ELSE ChurnStep(ChurnLoop(lines, i - 1), lines[i])

\* Lines 750-808 for the lines git printed.
get_file_churn(lines) == ChurnLoop(lines, Len(lines)).file_stats

(***************************************************************************)
(* Inputs of get_file_churn.                                               *)
(***************************************************************************)
MaxChurnLines == 4  \* lines of git's output

ChurnLines ==
    {<<"">>, <<"a.py">>, <<"b.py">>,
     <<"5", "0", "a.py">>, <<"2", "-", "b.py">>, <<"-", "-", "a.py">>,
     <<"x", "2", "a.py">>, <<"2", "x", "a.py">>, <<"10", "5">>}

InitChurn ==
    /\ fc_pc = "idle"
    /\ fc_lines = <<>>
    /\ fc_stats = {}
    /\ td_pc = "off"
    /\ td_commits = <<>>
    /\ td_metrics = [supplied |-> FALSE, items |-> {}]
    /\ td_result = [total_commits |-> -1, debt_commits |-> -1, feature_commits |-> -1, maintenance_commits |-> -1, debt_percentage |-> <<-1, 1>>, feature_percentage |-> <<-1, 1>>, maintenance_percentage |-> <<-1, 1>>, health_score |-> <<-1, 1>>, complexity_score |-> <<-1, 1>>, maintainability_index |-> <<-1, 1>>]
    /\ pc = "idle"
    /\ outcome = "none"
    /\ raw_log = <<>>
    /\ idx = 0
    /\ commits = <<>>
    /\ retval = <<>>
    /\ cm_pc = "off"
    /\ cm_lines = <<>>
    /\ cm_args = [loc |-> 0, complexity |-> 0, comments |-> 0]
    /\ cm_mi = <<-1, 1>>
    /\ cm_result = [loc |-> -1, sloc |-> -1, comment_lines |-> -1, functions |-> -1, classes |-> -1, complexity |-> -1, complexity_per_function |-> <<-1, 1>>, maintainability_index |-> <<-1, 1>>]
    /\ ch_pc = "off"
    /\ ch_churn = <<>>
    /\ ch_max_items = 0
    /\ ch_chart = [header |-> FALSE, rows |-> <<>>]
    /\ ch_commits = <<>>
    /\ ch_breakdown = {}
    /\ ch_authors = {}
    /\ px_pc = "off"
    /\ px_input = [file_path |-> "", lines |-> <<>>, language |-> ""]
    /\ px_classes = <<>>
    /\ px_runs = <<>>
    /\ run_pc = "off"
    /\ run_args = [no_git |-> FALSE, no_loc |-> FALSE, no_classes |-> FALSE]
    /\ run_env = [path |-> "dir", repo |-> "none", git |-> "ok", writable |-> TRUE]
    /\ run_is_git = FALSE
    /\ run_commits = <<>>
    /\ run_stats = [category_breakdown |-> {}, author_stats |-> {}]
    /\ run_events = <<>>
    /\ run_exit = -1
    /\ run_output = [built |-> FALSE, mode |-> "", duration_days |-> 0, history |-> <<>>, category_breakdown |-> {}, author_stats |-> {}, tech_debt_metrics |-> {}, file_churn |-> {}]
    /\ sc_pc = "off"
    /\ sc_files = <<>>
    /\ sc_raised = FALSE
    /\ sc_classes = <<>>
    /\ sc_metrics = [files_analyzed |-> -1, total_loc |-> -1, total_sloc |-> -1, total_comments |-> -1, total_complexity |-> -1, total_functions |-> -1, total_classes |-> -1, averages |-> {}, file_metrics |-> <<>>]
    /\ sc_graph = [nodes |-> <<>>, edges |-> <<>>, external_modules |-> <<>>]
    /\ sn_pc = "off"
    /\ sn_args = [lines |-> <<>>, start_line |-> 0, snip_format |-> ""]
    /\ sn_snippet = <<>>

\* git log ends and its output is read.
GetFileChurn ==
    /\ fc_pc = "idle"
    /\ \E n \in 0..MaxChurnLines : \E lines \in SeqsOfLen(ChurnLines, n) :
          /\ fc_lines' = lines
          /\ fc_stats' = get_file_churn(lines)
    /\ fc_pc' = "done"
    /\ UNCHANGED churnFrame

\* Lines 804-806: git log does not end in 60 seconds; the empty dictionary
\* is returned.
FileChurnTimesOut ==
    /\ fc_pc = "idle"
    /\ fc_stats' = {}
    /\ fc_pc' = "failed"
    /\ UNCHANGED fc_lines
    /\ UNCHANGED churnFrame

NextChurn ==
    \/ GetFileChurn
    \/ FileChurnTimesOut

SpecChurn == InitChurn /\ [][NextChurn]_vars

(***************************************************************************)
(* The churn table against the lines it was read from.                     *)
(***************************************************************************)
IsNameLine(line) == Len(line) = 1 /\ line # <<"">>
IsStatLine(line) == Len(line) >= 2

\* The file a stat line belongs to: the one of the last filename line in
\* front of it (<<>> if there is none).
FileOfLine(lines, i) ==
    LET names == {k \in 1..(i - 1) : IsNameLine(lines[k])}
    IN  IF names = {} THEN <<>>
        ELSE lines[CHOOSE k \in names : \A j \in names : j <= k]

\* The stat lines accumulated for a file: those of the file whose two counts
\* are numbers or '-'.
AccumulatedFor(lines, file) ==
    {i \in 1..Len(lines) :
        /\ IsStatLine(lines[i])
        /\ FileOfLine(lines, i) = <<file>>
        /\ \A k \in {1, 2} : lines[i][k] \in DOMAIN IntValue \cup {"-"}}

RECURSIVE SumField(_, _, _, _)
SumField(lines, file, k, i) ==
    IF i = 0 THEN 0
    ELSE SumField(lines, file, k, i - 1)
           + (IF i \in AccumulatedFor(lines, file) THEN FieldValue(lines[i][k]) ELSE 0)

====
